---- MODULE Spec2Model ----
(***************************************************************************)
(* Model of the entity/component store of mbarlow/ecs-js                   *)
(* (engine/src/core/entity-manager.js), of the hook sets of the systems    *)
(* that register with it, and of its Movement, AI and Render systems       *)
(* (engine/src/systems): Spec is the store, SpecSim the Movement and AI    *)
(* systems on a fixed world, SpecRange the range query of the AI system,   *)
(* SpecRender the store with a registered RenderSystem, SpecFrames the     *)
(* AI system driven frame after frame, SpecAngle the angle interpolation   *)
(* of the Movement system, SpecLoader the entity loader                    *)
(* (engine/src/core/entity-loader.js), SpecTick one EntityManager.update   *)
(* of the engine's three systems, SpecEngine the game loop and the         *)
(* Application's handlers (engine/src/core/game-engine.js).                *)
(*                                                                         *)
(* A JavaScript Map is modelled as the sequence of its <<key, value>>      *)
(* entries in iteration order: set on a present key replaces the value in  *)
(* place, set on an absent key appends, delete removes the entry.          *)
(***************************************************************************)
EXTENDS Integers, Sequences, FiniteSets, TLC

\* ------------------------------------------------------------- bounds
\* Entity ids range over 1..MaxId; the auto-increment allocator stops there.
MaxId == 2
\* The system list holds at most MaxSystems registrations.
MaxSystems == 2
\* Behaviours are explored up to MaxOps operations on the store.
MaxOps == 6

\* ------------------------------------------------------------- inputs
Ids == 1..MaxId
\* Ids a caller may pass to createEntity; 0 is falsy, like the default null.
SuppliedIds == 0..MaxId
\* Two of the component types of ComponentTypes.
Types == {"transform", "mesh"}
\* Component payloads: object references handed to addComponent.
Data == {"d1", "d2"}
\* Frame deltas handed to update.
DeltaTimes == {16}
\* System objects that may be registered: two RenderSystem instances and a
\* MovementSystem.
SystemObjs == {"render", "render2", "movement"}

Null == "null"
\* The null of a field that holds a mesh.
NoMesh == [null |-> TRUE]
Undefined == "undefined"
None == "-"

\* The hooks a system object implements (duck-typed).
RenderSystemHooks == {"update", "onComponentAdded", "onComponentRemoved", "onEntityDestroyed"}
MovementSystemHooks == {"update"}
Hooks(s) == IF s \in {"render", "render2"} THEN RenderSystemHooks ELSE MovementSystemHooks

VARIABLES
    entities,        \* Map entityId -> Map componentType -> componentData
    nextEntityId,    \* the auto-increment allocator
    componentTypes,  \* Set of the component types ever added
    systems,         \* the ordered system list
    bound,           \* the system objects whose entityManager field is this store
    calls,           \* hook invocations made by the last operation, in order
    lastOp,          \* the last operation: its name, arguments and outcome
    createdOrder,    \* history: live ids in the order of the createEntity calls that made them live
    destroyed,       \* history: the ids of the entities destroyEntity removed
    opCount,         \* history: the number of operations performed so far
    transform,       \* entityId -> the fields of its Transform component
    movement,        \* entityId -> the fields of its Movement component
    ai,              \* entityId -> the fields of its AI component
    now,             \* Date.now(), in ms since the origin of the model's clock
    simOp,           \* the last call made to the Movement or AI system
    simCount,        \* the number of such calls made so far
    meshes,          \* RenderSystem.meshes: Map entityId -> the mesh drawn for it
    scene,           \* the meshes in the THREE.Scene of the RenderSystem
    componentMesh,   \* payload object -> its mesh field, null until a renderer sets it
    engine           \* the GameEngine of the Application: its loop, its loads, its listeners

vars == <<entities, nextEntityId, componentTypes, systems, bound, calls, lastOp,
          createdOrder, destroyed, opCount>>

\* The state of the simulation systems' components.
simVars == <<transform, movement, ai, now, simOp, simCount>>

\* The state of the RenderSystem. The specifications of the store and of the
\* simulation record which hooks are invoked and leave the renderer's own
\* state out; SpecRender runs the hooks of a registered RenderSystem.
renderVars == <<meshes, scene, componentMesh>>

\* ------------------------------------------------------------- Map
MapHas(m, k) == \E i \in 1..Len(m) : m[i][1] = k
MapIndex(m, k) == CHOOSE i \in 1..Len(m) : m[i][1] = k
MapGet(m, k) == IF MapHas(m, k) THEN m[MapIndex(m, k)][2] ELSE Undefined
MapSetAppend(m, k, v) == Append(m, <<k, v>>)
MapSetMoveToEnd(m, k, v) == Append(SelectSeq(m, LAMBDA p : p[1] # k), <<k, v>>)
MapSet(m, k, v) ==
    IF MapHas(m, k)
    THEN [m EXCEPT ![MapIndex(m, k)] = <<k, v>>]
    ELSE Append(m, <<k, v>>)
MapDeleteAll(m, k) == << >>
MapDelete(m, k) == SelectSeq(m, LAMBDA p : p[1] # k)
MapKeys(m) == [i \in 1..Len(m) |-> m[i][1]]
EmptyMap == << >>

\* ------------------------------------------------------------- reads
\* const entity = ents.get(entityId); entity ? entity.get(componentType) : null
getComponentIn(ents, entityId, componentType) ==
    IF MapHas(ents, entityId)
    THEN MapGet(MapGet(ents, entityId), componentType)
    ELSE Null

getComponent(entityId, componentType) == getComponentIn(entities, entityId, componentType)

\* const entity = ents.get(entityId); entity ? entity.has(componentType) : false
hasComponentIn(ents, entityId, componentType) ==
    IF MapHas(ents, entityId)
    THEN MapHas(MapGet(ents, entityId), componentType)
    ELSE FALSE

hasComponent(entityId, componentType) == hasComponentIn(entities, entityId, componentType)

\* componentTypes.every((type) => components.has(type))
HasSomeComponents(components, query) ==
    \E i \in 1..Len(query) : MapHas(components, query[i])
HasAllComponents(components, query) ==
    \A i \in 1..Len(query) : MapHas(components, query[i])

\* for (const [entityId, components] of this.entities) ... result.push(entityId)
RECURSIVE QueryFrom(_, _, _)
QueryFrom(m, i, query) ==
    IF i > Len(m) THEN << >>
    ELSE IF HasAllComponents(m[i][2], query)
         THEN <<m[i][1]>> \o QueryFrom(m, i + 1, query)
         ELSE QueryFrom(m, i + 1, query)

getEntitiesWithComponents(query) == QueryFrom(entities, 1, query)

getAllEntities == MapKeys(entities)

getEntityCount == Len(entities)

\* ------------------------------------------------------------- dispatch
Call(s, hook, args) == [sys |-> s, hook |-> hook, args |-> args]

\* this.systems.forEach((system) => { if (system[hook]) system[hook](...args) })
RECURSIVE ForEachStopAtMissing(_, _, _, _)
ForEachStopAtMissing(sys, i, hook, args) ==
    IF i > Len(sys) THEN << >>
    ELSE IF hook \in Hooks(sys[i])
         THEN <<Call(sys[i], hook, args)>> \o ForEachStopAtMissing(sys, i + 1, hook, args)
         ELSE << >>
RECURSIVE ForEachSystem(_, _, _, _)
ForEachSystem(sys, i, hook, args) ==
    IF i > Len(sys) THEN << >>
    ELSE IF hook \in Hooks(sys[i])
         THEN <<Call(sys[i], hook, args)>> \o ForEachSystem(sys, i + 1, hook, args)
         ELSE ForEachSystem(sys, i + 1, hook, args)

Notify(hook, args) == ForEachSystem(systems, 1, hook, args)

\* The record kept of an operation: its name, its arguments (id is the entity
\* id used or returned, or the frame delta of update), whether it threw, and
\* what the call found: pre is "absent" (no such entity), "without" (entity
\* without that component), "with" (entity holding it), "live", or for
\* removeSystem "registered".
Blank ==
    [op |-> "constructor", id |-> 0, type |-> None, data |-> None, sys |-> None,
     mode |-> None, threw |-> FALSE, pre |-> None]

Found(entityId, componentType) ==
    IF ~MapHas(entities, entityId) THEN "absent"
    ELSE IF MapHas(MapGet(entities, entityId), componentType) THEN "with"
    ELSE "without"

\* ------------------------------------------------------------- Init
Init ==
    /\ entities = EmptyMap
    /\ nextEntityId = 1
    /\ componentTypes = {}
    /\ systems = << >>
    /\ bound = {}
    /\ calls = << >>
    /\ lastOp = Blank
    /\ createdOrder = << >>
    /\ destroyed = {}
    /\ opCount = 0
    /\ transform = << >>
    /\ movement = << >>
    /\ ai = << >>
    /\ now = 0
    /\ simOp = None
    /\ simCount = 0
    /\ meshes = EmptyMap
    /\ scene = {}
    /\ componentMesh = [d \in Data |-> NoMesh]
    /\ engine = None

\* One more operation, within the explored depth.
Step == opCount < MaxOps /\ opCount' = opCount + 1 /\ UNCHANGED simVars /\ UNCHANGED engine

\* The component Map of a live entity after it was mutated in place.
WithComponents(m, entityId, components) ==
    [m EXCEPT ![MapIndex(m, entityId)] = <<entityId, components>>]

\* ------------------------------------------------------------- operations
\* createEntity(id = null): const entityId = id || this.nextEntityId++
CreateWith(supplied, id) ==
    LET truthy == supplied /\ id # 0
        entityId == IF truthy THEN id ELSE nextEntityId
    IN  /\ Step
        /\ truthy \/ nextEntityId <= MaxId
        /\ nextEntityId' = IF truthy THEN nextEntityId ELSE nextEntityId + 1
        /\ entities' = MapSet(entities, entityId, EmptyMap)
        /\ createdOrder' = IF MapHas(entities, entityId)
                           THEN createdOrder
                           ELSE Append(createdOrder, entityId)
        /\ calls' = << >>
        /\ lastOp' = [Blank EXCEPT !.op = "createEntity", !.id = entityId,
                                   !.mode = IF truthy THEN "supplied" ELSE "auto",
                                   !.pre = IF MapHas(entities, entityId) THEN "live" ELSE "absent"]
        /\ UNCHANGED <<componentTypes, systems, bound, destroyed>>

createEntityDefault == CreateWith(FALSE, 0)

createEntity(id) == CreateWith(TRUE, id)

destroyEntityKeepsEntity(entityId) ==
    /\ Step
    /\ calls' = Notify("onEntityDestroyed", <<entityId>>)
    /\ lastOp' = [Blank EXCEPT !.op = "destroyEntity", !.id = entityId,
                               !.pre = IF MapHas(entities, entityId) THEN "live" ELSE "absent"]
    /\ UNCHANGED <<entities, createdOrder, destroyed, nextEntityId, componentTypes, systems, bound>>
destroyEntityIfLive(entityId) ==
    /\ Step
    /\ entities' = MapDelete(entities, entityId)
    /\ createdOrder' = SelectSeq(createdOrder, LAMBDA e : e # entityId)
    /\ destroyed' = IF MapHas(entities, entityId) THEN destroyed \cup {entityId} ELSE destroyed
    /\ calls' = IF MapHas(entities, entityId)
                THEN Notify("onEntityDestroyed", <<entityId>>)
                ELSE << >>
    /\ lastOp' = [Blank EXCEPT !.op = "destroyEntity", !.id = entityId,
                               !.pre = IF MapHas(entities, entityId) THEN "live" ELSE "absent"]
    /\ UNCHANGED <<nextEntityId, componentTypes, systems, bound>>
destroyEntity(entityId) ==
    /\ Step
    /\ entities' = MapDelete(entities, entityId)
    /\ createdOrder' = SelectSeq(createdOrder, LAMBDA e : e # entityId)
    /\ destroyed' = IF MapHas(entities, entityId) THEN destroyed \cup {entityId} ELSE destroyed
    /\ calls' = Notify("onEntityDestroyed", <<entityId>>)
    /\ lastOp' = [Blank EXCEPT !.op = "destroyEntity", !.id = entityId,
                               !.pre = IF MapHas(entities, entityId) THEN "live" ELSE "absent"]
    /\ UNCHANGED <<nextEntityId, componentTypes, systems, bound>>

addComponentNoCheck(entityId, componentType, componentData) ==
    /\ Step
    /\ componentTypes' = componentTypes \cup {componentType}
    /\ entities' = MapSet(entities, entityId,
                          MapSet(IF MapHas(entities, entityId)
                                 THEN MapGet(entities, entityId) ELSE EmptyMap,
                                 componentType, componentData))
    /\ createdOrder' = IF MapHas(entities, entityId)
                       THEN createdOrder
                       ELSE Append(createdOrder, entityId)
    /\ calls' = Notify("onComponentAdded", <<entityId, componentType, componentData>>)
    /\ lastOp' = [Blank EXCEPT !.op = "addComponent", !.id = entityId,
                               !.type = componentType, !.data = componentData,
                               !.pre = Found(entityId, componentType)]
    /\ UNCHANGED <<nextEntityId, systems, bound, destroyed>>
addComponent(entityId, componentType, componentData) ==
    /\ Step
    /\ lastOp' = [Blank EXCEPT !.op = "addComponent", !.id = entityId,
                               !.type = componentType, !.data = componentData,
                               !.threw = ~MapHas(entities, entityId),
                               !.pre = Found(entityId, componentType)]
    /\ IF ~MapHas(entities, entityId)
       THEN \* throw new Error(`Entity ${entityId} does not exist`)
            /\ calls' = << >>
            /\ UNCHANGED <<entities, componentTypes>>
       ELSE /\ componentTypes' = componentTypes \cup {componentType}
            /\ entities' = WithComponents(entities, entityId,
                               MapSet(MapGet(entities, entityId), componentType, componentData))
            /\ calls' = Notify("onComponentAdded", <<entityId, componentType, componentData>>)
    /\ UNCHANGED <<nextEntityId, systems, bound, createdOrder, destroyed>>

removeComponent(entityId, componentType) ==
    /\ Step
    /\ lastOp' = [Blank EXCEPT !.op = "removeComponent", !.id = entityId,
                               !.type = componentType,
                               !.pre = Found(entityId, componentType)]
    /\ IF ~MapHas(entities, entityId)
       THEN \* return
            /\ calls' = << >>
            /\ UNCHANGED entities
       ELSE /\ entities' = WithComponents(entities, entityId,
                               MapDelete(MapGet(entities, entityId), componentType))
            /\ calls' = Notify("onComponentRemoved", <<entityId, componentType>>)
    /\ UNCHANGED <<nextEntityId, componentTypes, systems, bound, createdOrder, destroyed>>

\* this.systems.push(system); system.entityManager = this
addSystem(system) ==
    /\ Step
    /\ Len(systems) < MaxSystems
    /\ systems' = Append(systems, system)
    /\ bound' = bound \cup {system}
    /\ calls' = << >>
    /\ lastOp' = [Blank EXCEPT !.op = "addSystem", !.sys = system]
    /\ UNCHANGED <<entities, nextEntityId, componentTypes, createdOrder, destroyed>>

\* indexOf: the first position of x, 0 for the -1 of a missing element
IndexOf(seq, x) ==
    IF \E i \in 1..Len(seq) : seq[i] = x
    THEN CHOOSE i \in 1..Len(seq) : seq[i] = x /\ \A j \in 1..(i - 1) : seq[j] # x
    ELSE 0

\* splice(index): everything from index to the end goes
SpliceToEnd(seq, index) == [i \in 1..(index - 1) |-> seq[i]]

\* splice(index, 1)
Splice1(seq, index) == [i \in 1..(Len(seq) - 1) |-> IF i < index THEN seq[i] ELSE seq[i + 1]]

removeSystem(system) ==
    /\ Step
    /\ systems' = IF IndexOf(systems, system) > 0
                  THEN Splice1(systems, IndexOf(systems, system))
                  ELSE systems
    /\ calls' = << >>
    /\ lastOp' = [Blank EXCEPT !.op = "removeSystem", !.sys = system,
                               !.pre = IF IndexOf(systems, system) > 0 THEN "registered"
                                                                        ELSE "absent"]
    /\ UNCHANGED <<bound, entities, nextEntityId, componentTypes, createdOrder, destroyed>>

update(deltaTime) ==
    /\ Step
    /\ calls' = Notify("update", <<deltaTime>>)
    /\ lastOp' = [Blank EXCEPT !.op = "update", !.id = deltaTime]
    /\ UNCHANGED <<entities, nextEntityId, componentTypes, systems, bound, createdOrder, destroyed>>

Next ==
    \/ createEntityDefault /\ UNCHANGED renderVars
    \/ \E id \in SuppliedIds : createEntity(id) /\ UNCHANGED renderVars
    \/ \E id \in Ids : destroyEntity(id) /\ UNCHANGED renderVars
    \/ \E id \in Ids, t \in Types, d \in Data : addComponent(id, t, d) /\ UNCHANGED renderVars
    \/ \E id \in Ids, t \in Types : removeComponent(id, t) /\ UNCHANGED renderVars
    \/ \E s \in SystemObjs : addSystem(s) /\ UNCHANGED renderVars
    \/ \E s \in SystemObjs : removeSystem(s) /\ UNCHANGED renderVars
    \/ \E dt \in DeltaTimes : update(dt) /\ UNCHANGED renderVars

Spec == Init /\ [][Next]_vars

\* ------------------------------------------------------------- numbers
\* A number of the program (a length, a velocity, an angle in radians, a
\* factor) is an integer counting hundredths of it: 0.1 is 10 and 0.95 is 95.
\* Times are integers counting milliseconds.
Scale == 100

Abs(a) == IF a < 0 THEN -a ELSE a
Sign(a) == IF a < 0 THEN -1 ELSE IF a > 0 THEN 1 ELSE 0

\* a / b for b > 0, rounded towards zero
Quot(a, b) == IF a >= 0 THEN a \div b ELSE -((-a) \div b)

\* a * b of two numbers counted in hundredths
Mul(a, b) == Quot(a * b, Scale)

\* Math.sqrt of n >= 0, rounded down
RECURSIVE SqrtBetween(_, _, _)
SqrtBetween(n, lo, hi) ==
    IF lo >= hi THEN lo
    ELSE LET mid == (lo + hi + 1) \div 2
         IN  IF mid * mid <= n THEN SqrtBetween(n, mid, hi) ELSE SqrtBetween(n, lo, mid - 1)
Sqrt(n) == SqrtBetween(n, 0, IF n < 40000 THEN n ELSE 40000)

\* Math.PI
Pi == 314

\* Math.sin(a) for 0 <= a <= Pi (Bhaskara's quotient, exact to a hundredth)
SinHalfTurn(a) == Quot(16 * a * (Pi - a) * Scale, 5 * Pi * Pi - 4 * a * (Pi - a))

\* Math.sin(a) for a >= 0
Sin(a) ==
    LET r == a % (2 * Pi)
    IN  IF r <= Pi THEN SinHalfTurn(r) ELSE -SinHalfTurn(r - Pi)

\* Math.atan(t) for 0 <= t <= 1 (exact to a hundredth)
AtanUnit(t) == Quot(Pi * t, 4 * Scale) + Quot(273 * t * (Scale - t), 10 * Scale * Scale)

\* Math.atan2(y, x)
Atan2(y, x) ==
    IF x = 0 /\ y = 0 THEN 0
    ELSE IF Abs(y) <= Abs(x)
         THEN LET a == AtanUnit(Quot(Abs(y) * Scale, Abs(x)))
              IN  IF x > 0 THEN Sign(y) * a
                  ELSE IF y < 0 THEN a - Pi ELSE Pi - a
         ELSE LET a == AtanUnit(Quot(Abs(x) * Scale, Abs(y)))
              IN  Sign(y) * (Quot(Pi, 2) - Sign(x) * a)

\* Math.sqrt(dx * dx + dz * dz) > r, for r >= 0
FartherOrAt(dx, dz, r) == dx * dx + dz * dz >= r * r
FartherThan(dx, dz, r) == dx * dx + dz * dz > r * r

\* ------------------------------------------------------------- MovementSystem
\* The values a call returns, and the null of a field that holds a position.
True == "true"
False == "false"
NoPosition == [null |-> TRUE]

\* if (component): the entity holds a component of that type
Has(entityId, componentType) == getComponent(entityId, componentType) \notin {Null, Undefined}

\* The components the systems work on.
World == [transform |-> transform, movement |-> movement, ai |-> ai]

damping == 95
bobFrequency == 200
bobAmplitude == 10
springStrength == 500
\* the 0.1 of "speed > 0.1" and of "distance > 0.1"
turnSpeed == 10
arrivalDistance == 10

\* difference * springStrength, the new velocity.y
applyHoverBehavior(t, m) ==
    LET targetY == m.groundY + m.hoverHeight
        difference == targetY - t.position.y
    IN  Mul(difference, springStrength)

\* if in place of while: one turn at most is taken off
WrapAngleOnce(diff) ==
    IF diff > Pi THEN diff - 2 * Pi
    ELSE IF diff < -Pi THEN diff + 2 * Pi
    ELSE diff
\* while (diff > Math.PI) diff -= 2 * Math.PI; while (diff < -Math.PI) diff += 2 * Math.PI
RECURSIVE WrapAngle(_)
WrapAngle(diff) ==
    IF diff > Pi THEN WrapAngle(diff - 2 * Pi)
    ELSE IF diff < -Pi THEN WrapAngle(diff + 2 * Pi)
    ELSE diff

lerpAngle(current, target, factor) == current + Mul(WrapAngle(target - current), factor)

\* position += velocity * deltaSeconds, with the velocity the tick started with
IntegratedDamped(p, v, deltaSeconds) == p + Mul(Mul(v, damping), deltaSeconds)
Integrated(p, v, deltaSeconds) == p + Mul(v, deltaSeconds)

updateEntityMovement(w, entityId, deltaTime, dateNow) ==
    IF ~Has(entityId, "transform") \/ ~Has(entityId, "movement") THEN w
    ELSE LET t == w.transform[entityId]
             m == w.movement[entityId]
             deltaSeconds == Quot(deltaTime * Scale, 1000)
             x == Integrated(t.position.x, m.velocity.x, deltaSeconds)
             z == Integrated(t.position.z, m.velocity.z, deltaSeconds)
             vy == applyHoverBehavior(t, m)
             vx == Mul(m.velocity.x, damping)
             vz == Mul(m.velocity.z, damping)
             time == Quot(dateNow * Scale, 1000)
             bobOffset == Mul(Sin(Mul(time, bobFrequency) + entityId * Scale), bobAmplitude)
             y == m.groundY + m.hoverHeight + bobOffset
             ry == IF FartherThan(vx, vz, turnSpeed)
                   THEN lerpAngle(t.rotation.y, Atan2(vx, vz), Mul(deltaSeconds, 3 * Scale))
                   ELSE t.rotation.y
         IN  [w EXCEPT !.transform[entityId] =
                           [position |-> [x |-> x, y |-> y, z |-> z], rotation |-> [y |-> ry]],
                       !.movement[entityId].velocity = [x |-> vx, y |-> vy, z |-> vz]]

\* entities.forEach((entityId) => this.updateEntityMovement(entityId, deltaTime))
RECURSIVE ForEachMovement(_, _, _, _, _)
ForEachMovement(w, ids, i, deltaTime, dateNow) ==
    IF i > Len(ids) THEN w
    ELSE ForEachMovement(updateEntityMovement(w, ids[i], deltaTime, dateNow), ids, i + 1,
                         deltaTime, dateNow)

\* velocity = force
applyForceSets(w, entityId, force) ==
    IF Has(entityId, "movement")
    THEN [w EXCEPT !.movement[entityId].velocity = [x |-> force.x, y |-> force.y, z |-> force.z]]
    ELSE w

\* if (movement) velocity += force
applyForce(w, entityId, force) ==
    IF Has(entityId, "movement")
    THEN [w EXCEPT !.movement[entityId].velocity =
                       [x |-> @.x + force.x, y |-> @.y + force.y, z |-> @.z + force.z]]
    ELSE w

\* The world after the call and the value returned.
moveTowards(w, entityId, targetPosition) ==
    IF ~Has(entityId, "transform") \/ ~Has(entityId, "movement")
    THEN [world |-> w, result |-> Undefined]
    ELSE LET t == w.transform[entityId]
             m == w.movement[entityId]
             dx == targetPosition.x - t.position.x
             dz == targetPosition.z - t.position.z
             distance == Sqrt(dx * dx + dz * dz)
         IN  IF FartherThan(dx, dz, arrivalDistance)
             THEN LET direction == [x |-> Quot(dx * Scale, distance),
                                    z |-> Quot(dz * Scale, distance)]
                      force == [x |-> Mul(direction.x, m.speed), y |-> 0,
                                z |-> Mul(direction.z, m.speed)]
                  IN  [world |-> applyForce(w, entityId, force), result |-> False]
             ELSE [world |-> w, result |-> True]

\* ------------------------------------------------------------- AISystem
maxBounds == 2500

\* Math.max(-maxBounds, Math.min(maxBounds, a))
Clamp(a) == IF a > maxBounds THEN maxBounds ELSE IF a < -maxBounds THEN -maxBounds ELSE a

\* offset is (Math.cos(angle) * distance, Math.sin(angle) * distance) for the
\* angle and the distance drawn
chooseNewWanderTargetUnclamped(w, entityId, offset) ==
    LET position == w.transform[entityId].position
    IN  [w EXCEPT !.ai[entityId].targetPosition =
                      [x |-> position.x + offset.x,
                       y |-> position.y,
                       z |-> position.z + offset.z]]
chooseNewWanderTarget(w, entityId, offset) ==
    LET position == w.transform[entityId].position
    IN  [w EXCEPT !.ai[entityId].targetPosition =
                      [x |-> Clamp(position.x + offset.x),
                       y |-> position.y,
                       z |-> Clamp(position.z + offset.z)]]

\* an arrival that leaves the target in place
handleWanderBehaviorKeepsTarget(w, entityId, currentTime, offset, interval) ==
    LET expired == currentTime - w.ai[entityId].lastDirectionChange
                       > w.ai[entityId].directionChangeInterval
        w1 == IF expired
              THEN [chooseNewWanderTarget(w, entityId, offset)
                       EXCEPT !.ai[entityId].lastDirectionChange = currentTime,
                              !.ai[entityId].state = "moving"]
              ELSE w
        a1 == w1.ai[entityId]
    IN  IF a1.targetPosition # NoPosition /\ a1.state = "moving"
        THEN LET r == moveTowards(w1, entityId, a1.targetPosition)
             IN  IF r.result = True
                 THEN [r.world EXCEPT !.ai[entityId].state = "idle",
                                      !.ai[entityId].directionChangeInterval = interval,
                                      !.ai[entityId].lastDirectionChange = currentTime]
                 ELSE r.world
        ELSE w1

\* currentTime is what Date.now() returns during the call, offset and interval
\* are what the random draws give where the code makes them
handleWanderBehavior(w, entityId, currentTime, offset, interval) ==
    LET expired == currentTime - w.ai[entityId].lastDirectionChange
                       > w.ai[entityId].directionChangeInterval
        w1 == IF expired
              THEN [chooseNewWanderTarget(w, entityId, offset)
                       EXCEPT !.ai[entityId].lastDirectionChange = currentTime,
                              !.ai[entityId].state = "moving"]
              ELSE w
        a1 == w1.ai[entityId]
    IN  IF a1.targetPosition # NoPosition /\ a1.state = "moving"
        THEN LET r == moveTowards(w1, entityId, a1.targetPosition)
             IN  IF r.result = True
                 THEN [r.world EXCEPT !.ai[entityId].state = "idle",
                                      !.ai[entityId].targetPosition = NoPosition,
                                      !.ai[entityId].directionChangeInterval = interval,
                                      !.ai[entityId].lastDirectionChange = currentTime]
                 ELSE r.world
        ELSE w1

\* the no-target branch leaves the behavior alone
handleSeekBehaviorKeepsSeeking(w, entityId) ==
    IF w.ai[entityId].targetPosition # NoPosition
    THEN LET r == moveTowards(w, entityId, w.ai[entityId].targetPosition)
         IN  IF r.result = True
             THEN [r.world EXCEPT !.ai[entityId].behavior = "wander",
                                  !.ai[entityId].targetPosition = NoPosition]
             ELSE r.world
    ELSE w
\* handleSeekBehavior that leaves the target in place on arrival
handleSeekBehaviorKeepsTarget(w, entityId) ==
    IF w.ai[entityId].targetPosition # NoPosition
    THEN LET r == moveTowards(w, entityId, w.ai[entityId].targetPosition)
         IN  IF r.result = True
             THEN [r.world EXCEPT !.ai[entityId].behavior = "wander"]
             ELSE r.world
    ELSE [w EXCEPT !.ai[entityId].behavior = "wander"]
handleSeekBehavior(w, entityId) ==
    IF w.ai[entityId].targetPosition # NoPosition
    THEN LET r == moveTowards(w, entityId, w.ai[entityId].targetPosition)
         IN  IF r.result = True
             THEN [r.world EXCEPT !.ai[entityId].behavior = "wander",
                                  !.ai[entityId].targetPosition = NoPosition]
             ELSE r.world
    ELSE [w EXCEPT !.ai[entityId].behavior = "wander"]

\* handleIdleBehavior with >= in place of >
handleIdleBehaviorAtExpiry(w, entityId, currentTime) ==
    IF currentTime - w.ai[entityId].lastDirectionChange >= w.ai[entityId].directionChangeInterval
    THEN [w EXCEPT !.ai[entityId].behavior = "wander"]
    ELSE w
\* if (currentTime - ai.lastDirectionChange > ai.directionChangeInterval) behavior = "wander"
handleIdleBehavior(w, entityId, currentTime) ==
    IF currentTime - w.ai[entityId].lastDirectionChange > w.ai[entityId].directionChangeInterval
    THEN [w EXCEPT !.ai[entityId].behavior = "wander"]
    ELSE w

\* switch (ai.behavior): any other behavior falls through the switch
updateEntityAI(w, entityId, currentTime, offset, interval) ==
    IF ~Has(entityId, "ai") \/ ~Has(entityId, "transform") THEN w
    ELSE IF w.ai[entityId].behavior = "wander"
         THEN handleWanderBehavior(w, entityId, currentTime, offset, interval)
    ELSE IF w.ai[entityId].behavior = "seek" THEN handleSeekBehavior(w, entityId)
    ELSE IF w.ai[entityId].behavior = "idle" THEN handleIdleBehavior(w, entityId, currentTime)
    ELSE w

\* entities.forEach((entityId) => this.updateEntityAI(entityId, deltaTime))
RECURSIVE ForEachAI(_, _, _, _, _, _)
ForEachAI(w, ids, i, currentTime, offset, interval) ==
    IF i > Len(ids) THEN w
    ELSE ForEachAI(updateEntityAI(w, ids[i], currentTime, offset, interval), ids, i + 1,
                   currentTime, offset, interval)

\* setTarget without ai.state = "moving"
setTargetKeepsState(w, entityId, targetPosition) ==
    IF Has(entityId, "ai")
    THEN [w EXCEPT !.ai[entityId].targetPosition = targetPosition,
                   !.ai[entityId].behavior = "seek"]
    ELSE w
\* if (ai) { targetPosition, behavior = "seek", state = "moving" }
setTarget(w, entityId, targetPosition) ==
    IF Has(entityId, "ai")
    THEN [w EXCEPT !.ai[entityId].targetPosition = targetPosition,
                   !.ai[entityId].behavior = "seek",
                   !.ai[entityId].state = "moving"]
    ELSE w

\* setBehavior that also clears the target
setBehaviorClearsTarget(w, entityId, behavior, currentTime) ==
    IF Has(entityId, "ai")
    THEN [w EXCEPT !.ai[entityId].behavior = behavior,
                   !.ai[entityId].state = "idle",
                   !.ai[entityId].lastDirectionChange = currentTime,
                   !.ai[entityId].targetPosition = NoPosition]
    ELSE w
\* if (ai) { behavior, state = "idle", lastDirectionChange = Date.now() }
setBehavior(w, entityId, behavior, currentTime) ==
    IF Has(entityId, "ai")
    THEN [w EXCEPT !.ai[entityId].behavior = behavior,
                   !.ai[entityId].state = "idle",
                   !.ai[entityId].lastDirectionChange = currentTime]
    ELSE w

\* ------------------------------------------------------------- simulation
\* Calls to the Movement and AI systems are explored up to MaxSimOps calls.
MaxSimOps == 4

\* The world the systems work on: entity 1 has a Transform, a Movement and an AI
\* component, entity 2 has a Transform only.
SimEntities ==
    <<<<1, <<<<"transform", "d1">>, <<"movement", "d1">>, <<"ai", "d1">>>>>>,
      <<2, <<<<"transform", "d2">>>>>>>>
SimIds == {1, 2}

\* Where entity 1 starts: at the origin, or just inside the wander bounds.
StartXs == {0, 2485}
\* Frame deltas, in ms.
SimDeltaTimes == {200}
\* (cos(angle) * distance, sin(angle) * distance) for the draws of a wander
\* target; distance = Math.random() * wanderRadius lies in [0, wanderRadius).
WanderOffsets == {[x |-> 0, z |-> 0], [x |-> 20, z |-> 0], [x |-> -30, z |-> -40]}
\* 1000 + Math.random() * 3000 lies in [1000, 4000).
IntervalDraws == {1000, 3999}
\* Target positions handed to setTarget and moveTowards.
Targets == {[x |-> 20, y |-> 0, z |-> 0], [x |-> 6, y |-> 0, z |-> 8],
            [x |-> -30, y |-> 0, z |-> 40]}
Forces == {[x |-> 200, y |-> 0, z |-> 0], [x |-> -300, y |-> 0, z |-> 0]}
Behaviors == {"wander", "seek", "idle"}
\* The time that passes between two calls, in ms.
ElapseTimes == {2500}
\* Date.now() at the start; the 0 a new AI component has as lastDirectionChange
\* is the epoch, further back than any directionChangeInterval.
NowStart == 5000

\* createTransformComponent(x, y, z)
createTransformComponent(x, y, z) ==
    [position |-> [x |-> x, y |-> y, z |-> z], rotation |-> [y |-> 0]]

\* createMovementComponent()
createMovementComponent ==
    [velocity |-> [x |-> 0, y |-> 0, z |-> 0], speed |-> 100, hoverHeight |-> 50, groundY |-> 0]

\* createAIComponent()
createAIComponent ==
    [behavior |-> "wander", targetPosition |-> NoPosition, lastDirectionChange |-> 0,
     directionChangeInterval |-> 2000, wanderRadius |-> 1000, state |-> "idle"]

\* The record kept of a call: its name, its arguments and draws, the value it
\* returned, and for a call to the AI system the AI components it started with.
SimBlank == [op |-> "constructor", id |-> 0, arg |-> None, result |-> None, pre |-> None]

InitSim ==
    /\ entities = SimEntities
    /\ nextEntityId = 3
    /\ componentTypes = {"transform", "movement", "ai"}
    /\ systems = <<"movement", "ai">>
    /\ bound = {"movement", "ai"}
    /\ calls = << >>
    /\ lastOp = Blank
    /\ createdOrder = <<1, 2>>
    /\ destroyed = {}
    /\ opCount = 0
    /\ \E x \in StartXs :
          transform = (1 :> createTransformComponent(x, 0, 0))
                          @@ (2 :> createTransformComponent(0, 0, 0))
    /\ movement = (1 :> createMovementComponent)
    /\ ai = (1 :> createAIComponent)
    /\ now = NowStart
    /\ simOp = SimBlank
    /\ simCount = 0
    /\ meshes = EmptyMap
    /\ scene = {}
    /\ componentMesh = [d \in Data |-> NoMesh]
    /\ engine = None

\* One more call, within the explored depth; the store is not touched.
SimStep ==
    /\ simCount < MaxSimOps /\ simCount' = simCount + 1
    /\ UNCHANGED vars /\ UNCHANGED renderVars /\ UNCHANGED engine

\* The components become those of world w.
Becomes(w) == transform' = w.transform /\ movement' = w.movement /\ ai' = w.ai

\* MovementSystem.update(deltaTime)
MovementUpdate(deltaTime) ==
    /\ SimStep
    /\ Becomes(ForEachMovement(World, getEntitiesWithComponents(<<"transform", "movement">>), 1,
                               deltaTime, now))
    /\ simOp' = [SimBlank EXCEPT !.op = "movement.update", !.arg = deltaTime]
    /\ UNCHANGED now

\* AISystem.update(deltaTime)
AIUpdate(offset, interval) ==
    /\ SimStep
    /\ Becomes(ForEachAI(World, getEntitiesWithComponents(<<"transform", "ai", "movement">>), 1,
                         now, offset, interval))
    /\ simOp' = [SimBlank EXCEPT !.op = "ai.update",
                                 !.arg = [offset |-> offset, interval |-> interval],
                                 !.pre = ai]
    /\ UNCHANGED now

\* MovementSystem.applyForce(entityId, force)
CallApplyForce(entityId, force) ==
    /\ SimStep
    /\ Becomes(applyForce(World, entityId, force))
    /\ simOp' = [SimBlank EXCEPT !.op = "applyForce", !.id = entityId, !.arg = force]
    /\ UNCHANGED now

\* MovementSystem.moveTowards(entityId, targetPosition, deltaTime)
CallMoveTowards(entityId, targetPosition) ==
    /\ SimStep
    /\ Becomes(moveTowards(World, entityId, targetPosition).world)
    /\ simOp' = [SimBlank EXCEPT !.op = "moveTowards", !.id = entityId, !.arg = targetPosition,
                                 !.result = moveTowards(World, entityId, targetPosition).result]
    /\ UNCHANGED now

\* AISystem.setTarget(entityId, targetPosition)
CallSetTarget(entityId, targetPosition) ==
    /\ SimStep
    /\ Becomes(setTarget(World, entityId, targetPosition))
    /\ simOp' = [SimBlank EXCEPT !.op = "setTarget", !.id = entityId, !.arg = targetPosition,
                                 !.pre = ai]
    /\ UNCHANGED now

\* AISystem.setBehavior(entityId, behavior)
CallSetBehavior(entityId, behavior) ==
    /\ SimStep
    /\ Becomes(setBehavior(World, entityId, behavior, now))
    /\ simOp' = [SimBlank EXCEPT !.op = "setBehavior", !.id = entityId, !.arg = behavior,
                                 !.pre = ai]
    /\ UNCHANGED now

\* Time passes between two calls.
Elapse(d) ==
    /\ SimStep
    /\ now' = now + d
    /\ simOp' = [SimBlank EXCEPT !.op = "elapse", !.arg = d]
    /\ UNCHANGED <<transform, movement, ai>>

NextSim ==
    \/ \E dt \in SimDeltaTimes : MovementUpdate(dt)
    \/ \E offset \in WanderOffsets, interval \in IntervalDraws : AIUpdate(offset, interval)
    \/ \E e \in SimIds, f \in Forces : CallApplyForce(e, f)
    \/ \E e \in SimIds, t \in Targets : CallMoveTowards(e, t)
    \/ \E e \in SimIds, t \in Targets \cup {NoPosition} : CallSetTarget(e, t)
    \/ \E e \in SimIds, b \in Behaviors : CallSetBehavior(e, b)
    \/ \E d \in ElapseTimes : Elapse(d)

simAll == <<vars, simVars>>

SpecSim == InitSim /\ [][NextSim]_simAll

\* ------------------------------------------------------------- frames of the AI system
\* The game loop is followed for MaxFrames frames.
MaxFrames == 8
\* The time from one frame to the next, in ms.
FrameTimes == {1000}

\* AISystem.update(deltaTime) in a frame of the game loop; the next frame comes
\* d ms later.
AIFrame(d, offset, interval) ==
    /\ now - NowStart < MaxFrames * d
    /\ Becomes(ForEachAI(World, getEntitiesWithComponents(<<"transform", "ai", "movement">>), 1,
                         now, offset, interval))
    /\ simOp' = [SimBlank EXCEPT !.op = "ai.update", !.pre = ai]
    /\ now' = now + d
    /\ UNCHANGED simCount
    /\ UNCHANGED vars /\ UNCHANGED renderVars /\ UNCHANGED engine

Frames == \E d \in FrameTimes, offset \in WanderOffsets, interval \in IntervalDraws :
              AIFrame(d, offset, interval)

NextFrames ==
    \/ Frames
    \/ \E b \in Behaviors : CallSetBehavior(1, b)

\* The clock reaches the next frame: the steps of NextFrames that do this are
\* the frames, and a frame is possible whenever the guard holds.
FrameDue == \E d \in FrameTimes : now - NowStart < MaxFrames * d /\ now' = now + d

\* While the engine runs, gameLoop requests the next frame at the end of each.
SpecFrames == InitSim /\ [][NextFrames]_simAll /\ WF_now(FrameDue)

\* ------------------------------------------------------------- AISystem.getEntitiesInRange
\* distance <= range, for the distance Math.sqrt(dx * dx + dz * dz)
StrictlyWithinRange(dx, dz, range) == range > 0 /\ ~FartherOrAt(dx, dz, range)
WithinRange(dx, dz, range) == range >= 0 /\ ~FartherThan(dx, dz, range)

\* entities.forEach: push { entityId, distance, position } when in range; dx
\* and dz keep the distance as it is before Sqrt rounds it
RECURSIVE ScanInRange(_, _, _, _, _)
ScanInRange(w, ids, i, position, range) ==
    IF i > Len(ids) THEN << >>
    ELSE IF Has(ids[i], "transform")
         THEN LET p == w.transform[ids[i]].position
                  dx == p.x - position.x
                  dz == p.z - position.z
              IN  IF WithinRange(dx, dz, range)
                  THEN <<[entityId |-> ids[i], distance |-> Sqrt(dx * dx + dz * dz),
                          dx |-> dx, dz |-> dz, position |-> p]>>
                       \o ScanInRange(w, ids, i + 1, position, range)
                  ELSE ScanInRange(w, ids, i + 1, position, range)
         ELSE ScanInRange(w, ids, i + 1, position, range)

\* a.distance - b.distance < 0, on the distances before rounding
Nearer(a, b) == a.dx * a.dx + a.dz * a.dz < b.dx * b.dx + b.dz * b.dz

\* Array.prototype.sort is stable: an entry goes behind the entries that are
\* not farther than it.
RECURSIVE InsertedBeforeTies(_, _)
InsertedBeforeTies(sorted, entry) ==
    IF sorted = << >> THEN <<entry>>
    ELSE IF Nearer(sorted[1], entry)
         THEN <<sorted[1]>> \o InsertedBeforeTies(Tail(sorted), entry)
         ELSE <<entry>> \o sorted
RECURSIVE Inserted(_, _)
Inserted(sorted, entry) ==
    IF sorted = << >> THEN <<entry>>
    ELSE IF Nearer(entry, sorted[1])
         THEN <<entry>> \o sorted
         ELSE <<sorted[1]>> \o Inserted(Tail(sorted), entry)

RECURSIVE SortedFrom(_, _, _)
SortedFrom(sorted, entries, i) ==
    IF i > Len(entries) THEN sorted
    ELSE SortedFrom(Inserted(sorted, entries[i]), entries, i + 1)

getEntitiesInRange(w, position, range) ==
    SortedFrom(<< >>, ScanInRange(w, getEntitiesWithComponents(<<"transform">>), 1,
                                  position, range), 1)

\* The world of the range queries: entities 2, 1 and 3, created in that order,
\* have a Transform; entity 4 has a Mesh only.
RangeEntities ==
    <<<<2, <<<<"transform", "d1">>>>>>, <<1, <<<<"transform", "d1">>>>>>,
      <<3, <<<<"transform", "d2">>, <<"mesh", "d2">>>>>>, <<4, <<<<"mesh", "d1">>>>>>>>
RangeIds == {1, 2, 3}
\* Where the entities stand.
RangePositions ==
    {[x |-> 0, y |-> 0, z |-> 0], [x |-> 30, y |-> 0, z |-> 40], [x |-> 50, y |-> 700, z |-> 0],
     [x |-> 60, y |-> 0, z |-> 0], [x |-> -30, y |-> 0, z |-> -40]}
\* The positions and ranges asked for.
QueryPositions == {[x |-> 0, y |-> 0, z |-> 0], [x |-> 30, y |-> 0, z |-> 0]}
Ranges == {-10, 0, 30, 50}

InitRange ==
    /\ entities = RangeEntities
    /\ nextEntityId = 1
    /\ componentTypes = {"transform", "mesh"}
    /\ systems = <<"ai">>
    /\ bound = {"ai"}
    /\ calls = << >>
    /\ lastOp = Blank
    /\ createdOrder = <<2, 1, 3, 4>>
    /\ destroyed = {}
    /\ opCount = 0
    /\ \E at \in [RangeIds -> RangePositions] :
          transform = [e \in RangeIds |-> createTransformComponent(at[e].x, at[e].y, at[e].z)]
    /\ movement = << >>
    /\ ai = << >>
    /\ now = NowStart
    /\ simOp = SimBlank
    /\ simCount = 0
    /\ meshes = EmptyMap
    /\ scene = {}
    /\ componentMesh = [d \in Data |-> NoMesh]
    /\ engine = None

\* AISystem.getEntitiesInRange(position, range)
CallGetEntitiesInRange(position, range) ==
    /\ SimStep
    /\ simOp' = [SimBlank EXCEPT !.op = "getEntitiesInRange",
                                 !.arg = [position |-> position, range |-> range],
                                 !.result = getEntitiesInRange(World, position, range)]
    /\ UNCHANGED <<transform, movement, ai, now>>

NextRange == \E position \in QueryPositions, range \in Ranges : CallGetEntitiesInRange(position, range)

SpecRange == InitRange /\ [][NextRange]_simAll

\* ------------------------------------------------------------- MovementSystem.lerpAngle
\* Angles handed to lerpAngle, in hundredths of a radian: the multiples of pi/2
\* up to three turns apart, and two angles off that grid.
Angles == {k * 157 : k \in -6..6} \cup {100, -250}
\* Interpolation factors: 0, 0.5, 1 and the unclamped 1.5.
Factors == {0, 50, 100, 150}

\* The arguments of the call to come are drawn; no call was made yet.
InitAngle ==
    /\ entities = EmptyMap
    /\ nextEntityId = 1
    /\ componentTypes = {}
    /\ systems = <<"movement">>
    /\ bound = {"movement"}
    /\ calls = << >>
    /\ lastOp = Blank
    /\ createdOrder = << >>
    /\ destroyed = {}
    /\ opCount = 0
    /\ transform = << >>
    /\ movement = << >>
    /\ ai = << >>
    /\ now = NowStart
    /\ \E current \in Angles, target \in Angles, factor \in Factors :
          simOp = [SimBlank EXCEPT
                      !.arg = [current |-> current, target |-> target, factor |-> factor]]
    /\ simCount = 0
    /\ meshes = EmptyMap
    /\ scene = {}
    /\ componentMesh = [d \in Data |-> NoMesh]
    /\ engine = None

\* MovementSystem.lerpAngle(current, target, factor)
CallLerpAngle ==
    /\ simOp.op = "constructor"
    /\ simOp' = [simOp EXCEPT !.op = "lerpAngle",
                              !.result = lerpAngle(simOp.arg.current, simOp.arg.target,
                                                   simOp.arg.factor)]
    /\ simCount' = simCount + 1
    /\ UNCHANGED <<transform, movement, ai, now>>
    /\ UNCHANGED vars /\ UNCHANGED renderVars /\ UNCHANGED engine

NextAngle == CallLerpAngle

SpecAngle == InitAngle /\ [][NextAngle]_simAll

\* ------------------------------------------------------------- RenderSystem
\* The renderer's Map of meshes and its scene, and the mesh fields of the
\* payload objects it is handed.
Renderer == [meshes |-> meshes, scene |-> scene, componentMesh |-> componentMesh]

\* A new THREE.Mesh has the pose of the origin until update copies one into it.
NoPose == "origin"

\* createMesh without the write to the component
createMeshKeepsComponent(r, entityId, meshComponent, serial) ==
    LET mesh == [of |-> meshComponent, serial |-> serial, pose |-> NoPose]
    IN  [r EXCEPT !.meshes = MapSet(r.meshes, entityId, mesh),
                  !.scene = r.scene \cup {serial}]
\* new THREE.Mesh(geometry, material) built from meshComponent by the serial-th
\* operation on the store; this.meshes.set(entityId, mesh); this.scene.add(mesh);
\* meshComponent.mesh = mesh. The scene holds the identities of its meshes.
createMesh(r, entityId, meshComponent, serial) ==
    LET mesh == [of |-> meshComponent, serial |-> serial, pose |-> NoPose]
    IN  [r EXCEPT !.meshes = MapSet(r.meshes, entityId, mesh),
                  !.scene = r.scene \cup {serial},
                  !.componentMesh[meshComponent] = [serial |-> serial]]

\* if (mesh) { this.scene.remove(mesh); this.meshes.delete(entityId) }
removeMesh(r, entityId) ==
    IF MapHas(r.meshes, entityId)
    THEN [r EXCEPT !.meshes = MapDelete(r.meshes, entityId),
                   !.scene = r.scene \ {MapGet(r.meshes, entityId).serial}]
    ELSE r

onComponentAdded(r, entityId, componentType, componentData, serial) ==
    IF componentType = "mesh" THEN createMesh(r, entityId, componentData, serial) ELSE r

onComponentRemoved(r, entityId, componentType) ==
    IF componentType = "mesh" THEN removeMesh(r, entityId) ELSE r

onEntityDestroyed(r, entityId) == removeMesh(r, entityId)

\* entities.forEach: if (mesh && transform) the pose of the Transform is copied
\* into the mesh; transforms gives the Transform of each entity of ids.
RECURSIVE CopyPoses(_, _, _, _)
CopyPoses(r, ids, i, transforms) ==
    IF i > Len(ids) THEN r
    ELSE CopyPoses(IF MapHas(r.meshes, ids[i])
                   THEN [r EXCEPT !.meshes =
                            MapSet(r.meshes, ids[i],
                                   [MapGet(r.meshes, ids[i]) EXCEPT !.pose = transforms[ids[i]]])]
                   ELSE r,
                   ids, i + 1, transforms)

\* RenderSystem.update(deltaTime), for the entities the query
\* getEntitiesWithComponents(TRANSFORM, MESH) returned
renderSystemUpdate(r, ids, transforms) == CopyPoses(r, ids, 1, transforms)

\* The Transform payload of each entity of the store.
TransformPayloads == [e \in Ids |-> getComponent(e, "transform")]

\* The renderer after the hook invocations cs[i..] of an operation have run.
RECURSIVE RunHooks(_, _, _, _)
RunHooks(r, cs, i, serial) ==
    IF i > Len(cs) THEN r
    ELSE LET c == cs[i]
             after ==
                 IF c.sys # "render" THEN r
                 ELSE IF c.hook = "onComponentAdded"
                      THEN onComponentAdded(r, c.args[1], c.args[2], c.args[3], serial)
                 ELSE IF c.hook = "onComponentRemoved"
                      THEN onComponentRemoved(r, c.args[1], c.args[2])
                 ELSE IF c.hook = "onEntityDestroyed" THEN onEntityDestroyed(r, c.args[1])
                 ELSE IF c.hook = "update"
                      THEN renderSystemUpdate(r, getEntitiesWithComponents(<<"transform", "mesh">>),
                                              TransformPayloads)
                 ELSE r
         IN  RunHooks(after, cs, i + 1, serial)

\* The hooks the operation invoked have run on the renderer.
Rendered ==
    /\ meshes' = RunHooks(Renderer, calls', 1, opCount').meshes
    /\ scene' = RunHooks(Renderer, calls', 1, opCount').scene
    /\ componentMesh' = RunHooks(Renderer, calls', 1, opCount').componentMesh

\* new EntityManager(); addSystem(new RenderSystem(...)): the renderer is
\* registered before any entity operation.
InitRender ==
    /\ entities = EmptyMap
    /\ nextEntityId = 1
    /\ componentTypes = {}
    /\ systems = <<"render">>
    /\ bound = {"render"}
    /\ calls = << >>
    /\ lastOp = [Blank EXCEPT !.op = "addSystem", !.sys = "render"]
    /\ createdOrder = << >>
    /\ destroyed = {}
    /\ opCount = 0
    /\ transform = << >>
    /\ movement = << >>
    /\ ai = << >>
    /\ now = 0
    /\ simOp = None
    /\ simCount = 0
    /\ meshes = EmptyMap
    /\ scene = {}
    /\ componentMesh = [d \in Data |-> NoMesh]
    /\ engine = None

NextRender ==
    \/ createEntityDefault /\ Rendered
    \/ \E id \in SuppliedIds : createEntity(id) /\ Rendered
    \/ \E id \in Ids : destroyEntity(id) /\ Rendered
    \/ \E id \in Ids, t \in Types, d \in Data : addComponent(id, t, d) /\ Rendered
    \/ \E id \in Ids, t \in Types : removeComponent(id, t) /\ Rendered
    \/ \E dt \in DeltaTimes : update(dt) /\ Rendered

allVars == <<vars, simVars, renderVars>>

SpecRender == InitRender /\ [][NextRender]_allVars

\* ------------------------------------------------------------- EntityLoader
\* The values of ComponentTypes: the types createComponentFromData knows.
ComponentTypes == {"transform", "mesh", "movement", "ai", "health"}
\* The keys a definition document may declare under "components": two component
\* types and two keys that are none, one of them an integer-like key.
DefinitionKeys == {"transform", "mesh", "bogus", "7"}
\* The integer-like keys, in ascending numeric order.
IndexKeys == <<"7">>
\* The number of components a definition declares.
DefinitionLengths == 0..3
\* The definitions: the keys of "components" in the order of the document.
Definitions ==
    {d \in UNION {[1..n -> DefinitionKeys] : n \in DefinitionLengths} :
        \A i, j \in 1..Len(d) : i # j => d[i] # d[j]}
\* The fields a definition gives for a component, merged with the overrides.
FinalData == "d1"

\* Object.entries(components): the integer-like keys in ascending order, then
\* the other keys in the order of the document.
ObjectEntries(keys) ==
    SelectSeq(IndexKeys, LAMBDA k : \E i \in 1..Len(keys) : keys[i] = k)
        \o SelectSeq(keys, LAMBDA k : \A i \in 1..Len(IndexKeys) : IndexKeys[i] # k)

\* createComponentFromData(type, data): the component a factory builds from the
\* data, or throw new Error(`Unknown component type: ${type}`)
createComponentFromData(type, data) ==
    IF type \in ComponentTypes
    THEN [threw |-> FALSE, component |-> [built |-> type, from |-> data]]
    ELSE [threw |-> TRUE, component |-> None]

\* The store as the loader finds it; calls collects the hook invocations.
EntityManager ==
    [entities |-> entities, nextEntityId |-> nextEntityId, componentTypes |-> componentTypes,
     createdOrder |-> createdOrder, calls |-> << >>]

\* this.entityManager.createEntity(): the id is em.nextEntityId
EntityCreated(em) ==
    [em EXCEPT !.entities = MapSet(em.entities, em.nextEntityId, EmptyMap),
               !.nextEntityId = em.nextEntityId + 1,
               !.createdOrder = IF MapHas(em.entities, em.nextEntityId)
                                THEN em.createdOrder
                                ELSE Append(em.createdOrder, em.nextEntityId)]

\* this.entityManager.addComponent(entityId, componentType, component) on a live
\* entity
ComponentAdded(em, entityId, componentType, component) ==
    [em EXCEPT !.componentTypes = em.componentTypes \cup {componentType},
               !.entities = WithComponents(em.entities, entityId,
                                MapSet(MapGet(em.entities, entityId), componentType, component)),
               !.calls = em.calls \o Notify("onComponentAdded",
                                            <<entityId, componentType, component>>)]

\* the loop with the unknown types skipped
RECURSIVE ApplyComponentsSkippingUnknown(_, _, _, _)
ApplyComponentsSkippingUnknown(em, entityId, entries, i) ==
    IF i > Len(entries) THEN [em |-> em, threw |-> \E j \in 1..Len(entries) :
                                                      entries[j] \notin ComponentTypes,
                              type |-> None]
    ELSE IF createComponentFromData(entries[i], FinalData).threw
         THEN ApplyComponentsSkippingUnknown(em, entityId, entries, i + 1)
         ELSE ApplyComponentsSkippingUnknown(
                  ComponentAdded(em, entityId, entries[i],
                                 createComponentFromData(entries[i], FinalData).component),
                  entityId, entries, i + 1)
\* for (const [componentType, componentData] of Object.entries(...)): build the
\* component and add it; an exception ends the loop and reaches the caller
RECURSIVE ApplyComponents(_, _, _, _)
ApplyComponents(em, entityId, entries, i) ==
    IF i > Len(entries) THEN [em |-> em, threw |-> FALSE, type |-> None]
    ELSE IF createComponentFromData(entries[i], FinalData).threw
         THEN [em |-> em, threw |-> TRUE, type |-> entries[i]]
         ELSE ApplyComponents(
                  ComponentAdded(em, entityId, entries[i],
                                 createComponentFromData(entries[i], FinalData).component),
                  entityId, entries, i + 1)

\* EntityLoader.createEntityFromDefinition(entityDefinition)
createEntityFromDefinition(definition) ==
    LET made == ApplyComponents(EntityCreated(EntityManager), nextEntityId,
                                ObjectEntries(definition), 1)
    IN  /\ Step
        /\ nextEntityId <= MaxId
        /\ entities' = made.em.entities
        /\ nextEntityId' = made.em.nextEntityId
        /\ componentTypes' = made.em.componentTypes
        /\ createdOrder' = made.em.createdOrder
        /\ calls' = made.em.calls
        /\ lastOp' = [Blank EXCEPT !.op = "createEntityFromDefinition", !.id = nextEntityId,
                                   !.data = definition, !.type = made.type,
                                   !.threw = made.threw]
        /\ UNCHANGED <<systems, bound, destroyed>>

\* The world documents: up to two entity groups, each naming a definition and
\* giving a count or none (hasCount is FALSE when the document has no count).
Worlds ==
    LET groups == [definition : {<<"transform">>, <<"mesh", "bogus">>},
                   hasCount : BOOLEAN, count : 0..2]
        given == {g \in groups : g.hasCount \/ g.count = 0}
    IN  {<< >>} \cup {<<g>> : g \in given} \cup {<<g, h>> : g \in given, h \in given}

\* spawnMultipleEntities(definitionPath, count, spawnArea), from the loaded
\* definition on: for (let i = 0; i < count; i++) create the entity and push its
\* id; an exception of createEntityFromDefinition ends the load.
RECURSIVE spawnMultipleEntities(_, _, _, _)
spawnMultipleEntities(acc, definition, count, i) ==
    IF i >= count \/ acc.threw THEN acc
    ELSE LET made == ApplyComponents(EntityCreated(acc.em), acc.em.nextEntityId,
                                     ObjectEntries(definition), 1)
         IN  spawnMultipleEntities(
                 [em |-> made.em,
                  ids |-> IF made.threw THEN acc.ids ELSE Append(acc.ids, acc.em.nextEntityId),
                  threw |-> made.threw],
                 definition, count, i + 1)

\* for (const entityGroup of worldData.entities): spawn entityGroup.count || 1
\* entities and push their ids
RECURSIVE SpawnGroups(_, _, _)
SpawnGroups(acc, world, g) ==
    IF g > Len(world) \/ acc.threw THEN acc
    ELSE SpawnGroups(
             spawnMultipleEntities(acc, world[g].definition,
                                   IF ~world[g].hasCount \/ world[g].count = 0
                                   THEN 1 ELSE world[g].count, 0),
             world, g + 1)

\* EntityLoader.loadWorld(worldPath), world being the document fetched
loadWorld(world) ==
    LET loaded == SpawnGroups([em |-> EntityManager, ids |-> << >>, threw |-> FALSE], world, 1)
    IN  /\ Step
        /\ nextEntityId <= MaxId
        /\ entities' = loaded.em.entities
        /\ nextEntityId' = loaded.em.nextEntityId
        /\ componentTypes' = loaded.em.componentTypes
        /\ createdOrder' = loaded.em.createdOrder
        /\ calls' = loaded.em.calls
        /\ lastOp' = [op |-> "loadWorld", id |-> nextEntityId, type |-> None, data |-> world,
                      sys |-> None, mode |-> None, threw |-> loaded.threw, pre |-> None,
                      result |-> loaded.ids]
        /\ UNCHANGED <<systems, bound, destroyed>>

\* new GameEngine(canvas): the store with the renderer, the movement system and
\* the AI system registered, and no entity yet.
InitLoader ==
    /\ entities = EmptyMap
    /\ nextEntityId = 1
    /\ componentTypes = {}
    /\ systems = <<"render", "movement", "ai">>
    /\ bound = {"render", "movement", "ai"}
    /\ calls = << >>
    /\ lastOp = Blank
    /\ createdOrder = << >>
    /\ destroyed = {}
    /\ opCount = 0
    /\ transform = << >>
    /\ movement = << >>
    /\ ai = << >>
    /\ now = 0
    /\ simOp = None
    /\ simCount = 0
    /\ meshes = EmptyMap
    /\ scene = {}
    /\ componentMesh = [d \in Data |-> NoMesh]
    /\ engine = None

NextLoader ==
    \/ \E d \in Definitions : createEntityFromDefinition(d) /\ UNCHANGED renderVars
    \/ \E world \in Worlds : loadWorld(world) /\ UNCHANGED renderVars
    \/ \E id \in Ids : destroyEntity(id) /\ UNCHANGED renderVars

SpecLoader == InitLoader /\ [][NextLoader]_vars

\* ------------------------------------------------------------- EntityManager.update of the engine
\* The world of a running engine: entity 1 has a Transform, a Mesh, a Movement
\* and an AI component.
TickEntities ==
    <<<<1, <<<<"transform", "d1">>, <<"mesh", "d1">>, <<"movement", "d1">>, <<"ai", "d1">>>>>>>>

\* system.update(deltaTime) for the system s on the components and the renderer
\* of w
SystemUpdated(s, w, deltaTime, dateNow, offset, interval) ==
    IF s = "render"
    THEN [w EXCEPT !.renderer =
              renderSystemUpdate(w.renderer, getEntitiesWithComponents(<<"transform", "mesh">>),
                                 w.transform)]
    ELSE IF s = "movement"
    THEN ForEachMovement(w, getEntitiesWithComponents(<<"transform", "movement">>), 1,
                         deltaTime, dateNow)
    ELSE IF s = "ai"
    THEN ForEachAI(w, getEntitiesWithComponents(<<"transform", "ai", "movement">>), 1,
                   dateNow, offset, interval)
    ELSE w

\* this.systems.forEach((system) => { if (system.update) system.update(deltaTime) })
RECURSIVE UpdateSystems(_, _, _, _, _, _, _)
UpdateSystems(w, sys, i, deltaTime, dateNow, offset, interval) ==
    IF i > Len(sys) THEN w
    ELSE UpdateSystems(SystemUpdated(sys[i], w, deltaTime, dateNow, offset, interval),
                       sys, i + 1, deltaTime, dateNow, offset, interval)

\* EntityManager.update(deltaTime), called by gameLoop: one tick
GameTick(deltaTime, offset, interval) ==
    /\ simCount < MaxSimOps
    /\ simCount' = simCount + 1
    /\ \E w \in {UpdateSystems([transform |-> transform, movement |-> movement, ai |-> ai,
                                 renderer |-> Renderer],
                                systems, 1, deltaTime, now, offset, interval)} :
          Becomes(w) /\ meshes' = w.renderer.meshes
    /\ simOp' = [SimBlank EXCEPT !.op = "tick", !.arg = deltaTime]
    /\ UNCHANGED <<now, scene, componentMesh, engine>>
    /\ UNCHANGED vars

\* new GameEngine(canvas) registers the renderer, the movement system and the AI
\* system in this order; the world is loaded and the renderer has built the
\* mesh of entity 1.
InitTick ==
    /\ entities = TickEntities
    /\ nextEntityId = 2
    /\ componentTypes = {"transform", "mesh", "movement", "ai"}
    /\ systems = <<"render", "movement", "ai">>
    /\ bound = {"render", "movement", "ai"}
    /\ calls = << >>
    /\ lastOp = Blank
    /\ createdOrder = <<1>>
    /\ destroyed = {}
    /\ opCount = 0
    /\ transform = (1 :> createTransformComponent(0, 0, 0))
    /\ movement = (1 :> createMovementComponent)
    /\ ai = (1 :> createAIComponent)
    /\ now = NowStart
    /\ simOp = SimBlank
    /\ simCount = 0
    /\ meshes = <<<<1, [of |-> "d1", serial |-> 1, pose |-> NoPose]>>>>
    /\ scene = {1}
    /\ componentMesh = [d \in Data |-> IF d = "d1" THEN [serial |-> 1] ELSE NoMesh]
    /\ engine = None

NextTick ==
    \/ \E dt \in SimDeltaTimes, offset \in WanderOffsets, interval \in IntervalDraws :
          GameTick(dt, offset, interval)
    \/ \E f \in Forces : CallApplyForce(1, f)
    \/ \E t \in Targets : CallSetTarget(1, t)
    \/ \E d \in ElapseTimes : Elapse(d)

SpecTick == InitTick /\ [][NextTick]_allVars

\* ------------------------------------------------------------- GameEngine and Application
\* The engine record: isRunning; callbacks, the number of requestAnimationFrame
\* callbacks waiting for the next animation frame; init, the state of the
\* loadWorld awaited by Application.init; restarts and spawns, the numbers of
\* loadWorld calls awaited by restartGame and of spawnEntity calls awaited by
\* spawnRandomMob; listening, whether the key listeners are installed. History:
\* op, the last handler that ran; updates and updated, the number of
\* EntityManager.update calls it made and the update calls the systems got;
\* steps, the number of handlers run so far.
MaxEngineOps == 7

\* A handler begins.
Handling(op) ==
    [engine EXCEPT !.op = op, !.updates = 0, !.updated = << >>, !.steps = @ + 1]

\* this.entityManager.update(deltaTime) as gameLoop calls it: every system that
\* has an update gets it; stopAt is the system whose update calls stop() on the
\* engine, 0 when none does.
RECURSIVE TickSystems(_, _, _, _, _)
TickSystems(eng, sys, i, deltaTime, stopAt) ==
    IF i > Len(sys) THEN eng
    ELSE TickSystems(
             [eng EXCEPT !.updated = IF "update" \in Hooks(sys[i])
                                     THEN Append(@, Call(sys[i], "update", <<deltaTime>>))
                                     ELSE @,
                         !.isRunning = @ /\ i # stopAt],
             sys, i + 1, deltaTime, stopAt)

\* the loop without its isRunning test
gameLoopUnguarded(eng, deltaTime, stopAt) ==
    [TickSystems(eng, systems, 1, deltaTime, stopAt)
        EXCEPT !.updates = @ + 1, !.callbacks = @ + 1]
\* gameLoop(): nothing when the engine is not running; else one tick, then
\* requestAnimationFrame(() => this.gameLoop()) whatever the tick did.
gameLoop(eng, deltaTime, stopAt) ==
    IF ~eng.isRunning THEN eng
    ELSE [TickSystems(eng, systems, 1, deltaTime, stopAt)
             EXCEPT !.updates = @ + 1, !.callbacks = @ + 1]

\* start(): lastTime = performance.now(), then gameLoop() reads the clock again
start(eng) ==
    IF eng.isRunning THEN eng ELSE gameLoop([eng EXCEPT !.isRunning = TRUE], 0, 0)

stop(eng) == [eng EXCEPT !.isRunning = FALSE]

\* The k callbacks of an animation frame run one after the other; the first
\* finds deltaTime since the last tick, the next ones find lastTime just set.
RECURSIVE RunCallbacks(_, _, _, _)
RunCallbacks(eng, k, deltaTime, stopAt) ==
    IF k = 0 THEN eng
    ELSE RunCallbacks(gameLoop(eng, deltaTime, stopAt), k - 1, 0, 0)

\* the application that starts the engine whether or not the world loaded
initStartsAnyway(eng, ok) ==
    [start([eng EXCEPT !.init = IF ok THEN "loaded" ELSE "failed"]) EXCEPT !.listening = TRUE]
\* Application.init() from the point where await this.gameEngine.loadWorld()
\* settles: start and install the listeners, or else show the error.
init(eng, ok) ==
    IF ok THEN [start([eng EXCEPT !.init = "loaded"]) EXCEPT !.listening = TRUE]
    ELSE [eng EXCEPT !.init = "failed"]

\* A handler of the engine ends: the store holds the entities m (and has
\* destroyed the ids gone), storeCalls are the hook calls the store made, then
\* come the updates.
EngineStep(new, em, gone, storeCalls) ==
    /\ engine.steps < MaxEngineOps
    /\ engine' = new
    /\ entities' = em.entities
    /\ nextEntityId' = em.nextEntityId
    /\ componentTypes' = em.componentTypes
    /\ createdOrder' = em.createdOrder
    /\ destroyed' = destroyed \cup gone
    /\ calls' = storeCalls \o new.updated
    /\ UNCHANGED <<systems, bound, lastOp, opCount>>
    /\ UNCHANGED simVars /\ UNCHANGED renderVars

\* An awaited load settles (kind is the handler that awaits it): on success the
\* entity of the definition, a Transform and a Mesh, is in the store.
LoadSettles(kind, ok) ==
    LET made == ApplyComponents(EntityCreated(EntityManager), nextEntityId,
                                ObjectEntries(<<"transform", "mesh">>), 1).em
        em == IF ok THEN made ELSE EntityManager
        h == Handling(kind)
    IN  \/ /\ kind = "init" /\ engine.init = "pending"
           /\ EngineStep(init(h, ok), em, {}, em.calls)
        \/ /\ kind = "restartGame" /\ engine.restarts > 0
           /\ EngineStep(IF ok THEN start([h EXCEPT !.restarts = @ - 1])
                               ELSE [h EXCEPT !.restarts = @ - 1], em, {}, em.calls)
        \/ /\ kind = "spawnRandomMob" /\ engine.spawns > 0
           /\ EngineStep([h EXCEPT !.spawns = @ - 1], em, {}, em.calls)

\* entities.forEach((entityId) => this.gameEngine.destroyEntity(entityId))
RECURSIVE DestroyAll(_, _)
DestroyAll(ids, i) ==
    IF i > Len(ids) THEN << >>
    ELSE Notify("onEntityDestroyed", <<ids[i]>>) \o DestroyAll(ids, i + 1)

\* Application.handleKeyDown(event), up to the first await of the handler
handleKeyDown(code) ==
    LET h == Handling(code)
    IN  /\ engine.listening
        /\ \/ /\ code = "Space"
              /\ EngineStep([h EXCEPT !.spawns = @ + 1], EntityManager, {}, << >>)
           \/ /\ code = "KeyR"
              /\ EngineStep([stop(h) EXCEPT !.restarts = @ + 1],
                            [EntityManager EXCEPT !.entities = EmptyMap,
                                                  !.createdOrder = << >>],
                            {getAllEntities[i] : i \in 1..Len(getAllEntities)},
                            DestroyAll(getAllEntities, 1))
           \/ /\ code = "KeyP"
              /\ EngineStep(IF h.isRunning THEN stop(h) ELSE start(h),
                            EntityManager, {}, << >>)

\* The browser runs the callbacks requested for this animation frame.
AnimationFrame(deltaTime, stopAt) ==
    /\ engine.callbacks > 0
    /\ EngineStep(RunCallbacks([Handling("frame") EXCEPT !.callbacks = 0],
                               engine.callbacks, deltaTime, stopAt),
                  EntityManager, {}, << >>)

\* new Application(): the engine is built with its three systems and
\* init() awaits loadWorld().
InitEngine ==
    /\ entities = EmptyMap
    /\ nextEntityId = 1
    /\ componentTypes = {}
    /\ systems = <<"render", "movement", "ai">>
    /\ bound = {"render", "movement", "ai"}
    /\ calls = << >>
    /\ lastOp = Blank
    /\ createdOrder = << >>
    /\ destroyed = {}
    /\ opCount = 0
    /\ transform = << >>
    /\ movement = << >>
    /\ ai = << >>
    /\ now = 0
    /\ simOp = None
    /\ simCount = 0
    /\ meshes = EmptyMap
    /\ scene = {}
    /\ componentMesh = [d \in Data |-> NoMesh]
    /\ engine = [isRunning |-> FALSE, callbacks |-> 0, init |-> "pending", restarts |-> 0,
                 spawns |-> 0, listening |-> FALSE, op |-> "constructor", updates |-> 0,
                 updated |-> << >>, steps |-> 0]

NextEngine ==
    \/ \E kind \in {"init", "restartGame", "spawnRandomMob"}, ok \in BOOLEAN :
          LoadSettles(kind, ok)
    \/ \E code \in {"Space", "KeyR", "KeyP"} : handleKeyDown(code)
    \/ \E dt \in DeltaTimes, stopAt \in 0..Len(systems) : AnimationFrame(dt, stopAt)

SpecEngine == InitEngine /\ [][NextEngine]_<<vars, engine>>

\* ------------------------------------------------------------- properties
Live(e) == \E i \in 1..Len(entities) : entities[i][1] = e

Range(seq) == {seq[i] : i \in 1..Len(seq)}

\* The component type lists a query is made with, the empty list included.
Queries == {<< >>} \cup {<<a>> : a \in Types} \cup {<<a, b>> : a \in Types, b \in Types}

\* Some query result contains e.
Queried(e) == \E q \in Queries : e \in Range(getEntitiesWithComponents(q))

\* Operation op changed the structure of entity e at component type v: it
\* created or destroyed e, or added or removed type v of e.
StructuralMutationOf(op, e, v) ==
    \/ op.op \in {"createEntity", "destroyEntity"} /\ op.id = e
    \/ op.op \in {"addComponent", "removeComponent"} /\ op.id = e /\ op.type = v

\* The systems of the list that implement hook, in list order.
Implementing(hook) == SelectSeq(systems, LAMBDA s : hook \in Hooks(s))

\* calls is one invocation hook(args) per registration implementing the hook,
\* in registration order.
Delivered(cs, hook, args) ==
    /\ Len(cs) = Len(Implementing(hook))
    /\ \A i \in 1..Len(cs) :
          /\ cs[i].sys = Implementing(hook)[i]
          /\ cs[i].hook = hook
          /\ cs[i].args = args

NoDuplicates(seq) == \A i, j \in 1..Len(seq) : i # j => seq[i] # seq[j]

\* The number of entries of Map m under key k.
Entries(m, k) == Cardinality({i \in 1..Len(m) : m[i][1] = k})

\* C1: after addComponent(e, v, d) succeeds, hasComponent(e, v) is true and
\* getComponent(e, v) returns d; and for every component an entity e holds
\* under a type v, with d what getComponent(e, v) returns, hasComponent(e, v)
\* stays true and getComponent(e, v) stays d across every operation that is not
\* a structural mutation of e at v (a createEntity returning e, a
\* destroyEntity(e), an addComponent or removeComponent of type v on e).
C1_AddThenRead ==
    [][/\ (lastOp'.op = "addComponent" /\ ~lastOp'.threw)
          => /\ hasComponentIn(entities', lastOp'.id, lastOp'.type)
             /\ getComponentIn(entities', lastOp'.id, lastOp'.type) = lastOp'.data
       /\ \A i \in 1..Len(entities) :
             \A j \in 1..Len(entities[i][2]) :
                LET e == entities[i][1]
                    v == entities[i][2][j][1]
                    d == getComponent(e, v)
                IN  ~StructuralMutationOf(lastOp', e, v)
                    => /\ hasComponentIn(entities', e, v)
                       /\ getComponentIn(entities', e, v) = d]_vars

\* A component added earlier is still read back after another component type
\* of the same entity was added and another entity was created.
C1_Witness ==
    \E e \in Ids, v \in Types :
        /\ lastOp.op = "addComponent" /\ lastOp.id = e /\ lastOp.type # v /\ lastOp.pre = "without"
        /\ lastOp.data = "d1"
        /\ getComponent(e, v) = "d2"
        /\ Len(entities) = MaxId

\* C2: for every list of component types, the empty list included,
\* getEntitiesWithComponents returns exactly the live entities that have every
\* listed type, each once.
C2_QueryExact ==
    \A q \in Queries :
        LET r == getEntitiesWithComponents(q)
        IN  /\ Range(r) = {e \in Ids \cup Range(getAllEntities) :
                              Live(e) /\ \A i \in 1..Len(q) : hasComponent(e, q[i])}
            /\ NoDuplicates(r)

\* A required type was just removed from one of two entities that held it: the
\* query for it now returns the other one only, the empty query still both.
C2_Witness ==
    \E e1 \in Ids, e2 \in Ids :
        /\ e1 # e2
        /\ lastOp.op = "removeComponent" /\ lastOp.id = e1 /\ lastOp.pre = "with"
        /\ getEntitiesWithComponents(<<lastOp.type>>) = <<e2>>
        /\ Range(getEntitiesWithComponents(<< >>)) = {e1, e2}

\* C3 as stated: once destroyEntity(e) removed entity e, no query result contains e
\* and hasComponent(e, v) is false for every v, in every later state.
C3_NeverAgain ==
    \A e \in destroyed : ~Queried(e) /\ \A v \in Types : ~hasComponent(e, v)

\* C3 amended: destroyEntity(e) leaves e not live, an entity that is not live
\* stays so until a createEntity call returns its id, and as long as e is not
\* live no query result contains e and hasComponent(e, v) is false for every v.
C3_UntilRecreated ==
    /\ [](\A e \in Ids :
             ~Live(e) => (~Queried(e) /\ \A v \in Types : ~hasComponent(e, v)))
    /\ [][\A e \in Ids :
             /\ (lastOp'.op = "destroyEntity" /\ lastOp'.id = e) => ~Live(e)'
             /\ (~Live(e) /\ ~(lastOp'.op = "createEntity" /\ lastOp'.id = e))
                => ~Live(e)']_vars

\* A destroyed entity that held a component stays out of the queries while a
\* component is added to it in vain.
C3_Witness ==
    \E e \in destroyed :
        /\ ~Live(e)
        /\ lastOp.op = "addComponent" /\ lastOp.id = e /\ lastOp.threw
        /\ componentTypes # {}
        /\ Len(entities) > 0

\* C4: addComponent on an id without a component set throws, and then the store
\* (entities, allocator, component types, system list) is unchanged and no hook
\* is invoked.
C4_AddToMissingFails ==
    [][(lastOp'.op = "addComponent" /\ ~MapHas(entities, lastOp'.id))
          => /\ lastOp'.threw
             /\ UNCHANGED <<entities, nextEntityId, componentTypes, systems, bound>>
             /\ calls' = << >>]_vars

\* addComponent threw on a destroyed id while a system implementing
\* onComponentAdded was registered and another entity was live.
C4_Witness ==
    /\ lastOp.op = "addComponent" /\ lastOp.threw
    /\ lastOp.id \in destroyed
    /\ \E i \in 1..Len(systems) : "onComponentAdded" \in Hooks(systems[i])
    /\ Len(entities) > 0

\* C5 as stated: a createEntity call never returns the id of an entity that is
\* live at that moment, and leaves the component set of every live entity as
\* it was.
C5_NoLiveIdReturned ==
    [][lastOp'.op = "createEntity"
          => /\ ~MapHas(entities, lastOp'.id)
             /\ \A e \in Ids : MapHas(entities, e)
                   => /\ MapHas(entities', e)
                      /\ MapGet(entities', e) = MapGet(entities, e)]_vars

\* C6 as stated: removeComponent changes nothing and notifies nobody when the
\* entity or the component is missing; when the component is present it is
\* deleted and onComponentRemoved(id, v) is delivered once per system.
C6_RemoveNoOpWhenMissing ==
    [][\A e \in Ids, v \in Types :
          (lastOp'.op = "removeComponent" /\ lastOp'.id = e /\ lastOp'.type = v)
          => IF hasComponent(e, v)
             THEN /\ ~hasComponent(e, v)'
                  /\ Delivered(calls', "onComponentRemoved", <<e, v>>)
             ELSE /\ UNCHANGED <<entities, nextEntityId, componentTypes, systems, bound>>
                  /\ calls' = << >>]_vars

\* C7: destroyEntity(id) never throws and delivers onEntityDestroyed(id) to
\* every registration implementing the hook, in order, whether or not id was
\* live; id is not live afterwards, and on an absent id the entity mapping is
\* unchanged.
C7_DestroyAlwaysNotifies ==
    [][lastOp'.op = "destroyEntity"
          => /\ ~lastOp'.threw
             /\ Delivered(calls', "onEntityDestroyed", <<lastOp'.id>>)
             /\ (NoDuplicates(systems) =>
                    \A s \in Range(systems) : "onEntityDestroyed" \in Hooks(s) =>
                        Cardinality({i \in 1..Len(calls') : calls'[i].sys = s}) = 1)
             /\ ~MapHas(entities', lastOp'.id)
             /\ (~MapHas(entities, lastOp'.id) => entities' = entities)]_vars

\* destroyEntity of an id that was never created, with one system registered
\* that implements the hook: the system is notified all the same.
C7_Witness ==
    /\ opCount = 2
    /\ lastOp.op = "destroyEntity" /\ lastOp.pre = "absent"
    /\ Len(systems) = 1
    /\ Len(calls) = 1 /\ calls[1].hook = "onEntityDestroyed" /\ calls[1].args = <<lastOp.id>>

\* C8: an entity holds at most one component per type; addComponent(e, v, d2)
\* on an entity already holding type v replaces the data with d2, delivers one
\* onComponentAdded(e, v, d2) per registration and no onComponentRemoved.
C8_ReplaceWithoutRemove ==
    [][/\ \A i \in 1..Len(entities') : \A v \in Types : Entries(entities'[i][2], v) <= 1
       /\ \A e \in Ids, v \in Types, d2 \in Data :
             (lastOp'.op = "addComponent" /\ lastOp'.id = e /\ lastOp'.type = v
                /\ lastOp'.data = d2 /\ hasComponent(e, v))
             => /\ getComponent(e, v)' = d2
                /\ Entries(MapGet(entities', e), v) = 1
                /\ Len(MapGet(entities', e)) = Len(MapGet(entities, e))
                /\ Delivered(calls', "onComponentAdded", <<e, v, d2>>)
                /\ \A i \in 1..Len(calls') : calls'[i].hook # "onComponentRemoved"]_vars

\* A component was replaced while a system implementing both hooks was
\* registered: it saw exactly one call, onComponentAdded with the new data.
C8_Witness ==
    /\ lastOp.op = "addComponent" /\ lastOp.pre = "with" /\ lastOp.data = "d2"
    /\ getComponent(lastOp.id, lastOp.type) = "d2"
    /\ Len(calls) = 1 /\ calls[1].hook = "onComponentAdded"
    /\ calls[1].args = <<lastOp.id, lastOp.type, "d2">>

\* The hook an operation dispatches, given the entities it found.
DispatchedHook(op, found) ==
    CASE op.op = "update" -> "update"
      [] op.op = "destroyEntity" -> "onEntityDestroyed"
      [] op.op = "addComponent" /\ MapHas(found, op.id) -> "onComponentAdded"
      [] op.op = "removeComponent" /\ MapHas(found, op.id) -> "onComponentRemoved"
      [] OTHER -> None

DispatchedArgs(op) ==
    CASE op.op = "update" -> <<op.id>>
      [] op.op = "destroyEntity" -> <<op.id>>
      [] op.op = "addComponent" -> <<op.id, op.type, op.data>>
      [] op.op = "removeComponent" -> <<op.id, op.type>>
      [] OTHER -> << >>

\* C9: update and every lifecycle event invoke the corresponding hook once per
\* registration implementing it, in the order of the system list; systems
\* without the hook are skipped and the systems after them are still called;
\* operations that dispatch nothing invoke no hook.
C9_RegistrationOrderIsDispatchOrder ==
    [][LET hook == DispatchedHook(lastOp', entities)
       IN  IF hook = None
           THEN calls' = << >>
           ELSE /\ Delivered(calls', hook, DispatchedArgs(lastOp'))
                /\ systems' = systems
                /\ (NoDuplicates(systems) =>
                       \A s \in Range(systems) :
                           Cardinality({i \in 1..Len(calls') : calls'[i].sys = s})
                               = IF hook \in Hooks(s) THEN 1 ELSE 0)]_vars

\* A lifecycle event with a system lacking the hook registered before one that
\* implements it: the second is still called.
C9_Witness ==
    /\ Len(systems) = 2
    /\ "onComponentAdded" \notin Hooks(systems[1])
    /\ "onComponentAdded" \in Hooks(systems[2])
    /\ lastOp.op = "addComponent" /\ ~lastOp.threw
    /\ Len(calls) = 1 /\ calls[1].sys = systems[2]

\* The position of x in a sequence without duplicates.
PositionIn(seq, x) == CHOOSE i \in 1..Len(seq) : seq[i] = x

\* C10: the entities iterate, and every query result lists its entities, in
\* the order of the createEntity calls that made them live, which need not be
\* ascending id order.
C10_CreationOrder ==
    /\ getAllEntities = createdOrder
    /\ \A q \in Queries :
          LET r == getEntitiesWithComponents(q)
          IN  /\ Range(r) \subseteq Range(createdOrder)
              /\ \A i, j \in 1..Len(r) :
                    i < j => PositionIn(createdOrder, r[i]) < PositionIn(createdOrder, r[j])

\* Entity 2 was created before entity 1 and entity 2 was created again while
\* live: a query lists 2 before 1.
C10_Witness ==
    /\ lastOp.op = "createEntity" /\ lastOp.id = MaxId /\ lastOp.pre = "live"
    /\ \E t \in Types : /\ hasComponent(1, t)
                        /\ getEntitiesWithComponents(<< >>) = <<MaxId, 1>>
                        /\ getEntitiesWithComponents(<<t>>) = <<1>>

\* The registrations of seq other than those of x, in order.
Without(seq, x) == SelectSeq(seq, LAMBDA y : y # x)

\* The number of registrations of x in seq.
Count(seq, x) == Cardinality({i \in 1..Len(seq) : seq[i] = x})

\* Every invocation goes to a system that is registered when the operation ends.
CallsOnlyToRegistered == \A i \in 1..Len(calls') : calls'[i].sys \in Range(systems')

PlanarDistanceSq(e, t) ==
    (t.x - transform[e].position.x) * (t.x - transform[e].position.x)
    + (t.z - transform[e].position.z) * (t.z - transform[e].position.z)

\* direction * speed for entity e and target t: the unit vector from the
\* position of e to t, times the speed of e.
TowardsForce(e, t) ==
    LET dx == t.x - transform[e].position.x
        dz == t.z - transform[e].position.z
        distance == Sqrt(dx * dx + dz * dz)
    IN  [x |-> Quot(Quot(dx * Scale, distance) * movement[e].speed, Scale),
         z |-> Quot(Quot(dz * Scale, distance) * movement[e].speed, Scale)]

\* moveTowards(e, t) was called on an entity holding a Transform and a Movement.
MovedTowards(op, e, t) ==
    /\ op.op = "moveTowards" /\ op.id = e /\ op.arg = t
    /\ Has(e, "transform") /\ Has(e, "movement")

\* C12: moveTowards(e, t, dt), on an entity with a position and a speed,
\* returns a boolean that is true iff the planar distance from the position of
\* e to t is at most 0.1 (10 hundredths); when it returns true the velocity is
\* unchanged; when the distance is greater it adds the one force
\* direction * speed to the planar velocity, leaves velocity.y alone, and
\* returns false. The position never changes.
C12_MoveTowardsArrival ==
    [][\A e \in SimIds, t \in Targets :
          MovedTowards(simOp', e, t)
          => /\ simOp'.result \in {True, False}
             /\ simOp'.result = True <=> PlanarDistanceSq(e, t) <= 10 * 10
             /\ simOp'.result = True => movement' = movement
             /\ simOp'.result = False
                   => /\ movement'[e].velocity.x = movement[e].velocity.x + TowardsForce(e, t).x
                      /\ movement'[e].velocity.z = movement[e].velocity.z + TowardsForce(e, t).z
                      /\ movement'[e].velocity.y = movement[e].velocity.y
             /\ transform' = transform /\ ai' = ai]_simAll

\* moveTowards returned true for a moving entity exactly 0.1 away from the
\* target.
C12_Witness ==
    /\ simOp.op = "moveTowards" /\ simOp.id = 1 /\ simOp.result = True
    /\ PlanarDistanceSq(1, simOp.arg) = 10 * 10
    /\ movement[1].velocity.x # 0

\* The square of the magnitude of a planar vector.
MagnitudeSq(v) == v.x * v.x + v.z * v.z

\* C13 as stated: whenever moveTowards returns false, the magnitude of the
\* planar velocity after the call is strictly greater than before the call.
C13_MagnitudeGrows ==
    [][\A e \in SimIds, t \in Targets :
          (MovedTowards(simOp', e, t) /\ simOp'.result = False)
          => MagnitudeSq(movement'[e].velocity) > MagnitudeSq(movement[e].velocity)]_simAll

\* C13 amended: whenever moveTowards returns false it has added to the planar
\* velocity v a force f = direction * speed that points to the target, so the
\* velocity component towards the target has grown; the magnitude of the
\* planar velocity is strictly greater than before exactly when
\* 2 v.f + f.f > 0, which holds from rest and for every v that does not point
\* away from the target, and fails for instance when v = -f.
C13_ForceTowardsTarget ==
    [][\A e \in SimIds, t \in Targets :
          (MovedTowards(simOp', e, t) /\ simOp'.result = False)
          => LET v == movement[e].velocity
                 f == TowardsForce(e, t)
                 dx == t.x - transform[e].position.x
                 dz == t.z - transform[e].position.z
             IN  /\ f.x * dx + f.z * dz > 0
                 /\ movement'[e].velocity.x - v.x = f.x
                 /\ movement'[e].velocity.z - v.z = f.z
                 /\ (v.x * f.x + v.z * f.z >= 0)
                       => MagnitudeSq(movement'[e].velocity) > MagnitudeSq(v)
                 /\ (2 * (v.x * f.x + v.z * f.z) + MagnitudeSq(f) <= 0)
                       => MagnitudeSq(movement'[e].velocity) <= MagnitudeSq(v)]_simAll

\* moveTowards returned false for an entity that was moving away from the
\* target, and the entity is now slower than the speed it was given.
C13_Witness ==
    /\ simOp.op = "moveTowards" /\ simOp.id = 1 /\ simOp.result = False
    /\ movement[1].velocity.x < 0
    /\ simOp.arg.x > transform[1].position.x
    /\ simOp.arg.z = transform[1].position.z

\* MovementSystem.update(dt) ran over an entity holding a Transform and a
\* Movement.
Ticked(op, e, dt) ==
    /\ op.op = "movement.update" /\ op.arg = dt
    /\ Has(e, "transform") /\ Has(e, "movement")

\* C19: one MovementSystem.update(dt) integrates before it damps: position.x
\* and position.z grow by the velocity the tick started with times dt / 1000,
\* and afterwards velocity.x and velocity.z are 0.95 times what they were; so
\* when the tick follows applyForce(e, {x: 2, y: 0, z: 0}) on an entity at rest,
\* position.x has strictly increased and velocity.x is 0.95 * 2 = 1.9.
C19_IntegrateThenDamp ==
    [][\A e \in SimIds, dt \in SimDeltaTimes :
          Ticked(simOp', e, dt)
          => LET v == movement[e].velocity
                 p == transform[e].position
             IN  /\ transform'[e].position.x = p.x + Quot(v.x * dt, 1000)
                 /\ transform'[e].position.z = p.z + Quot(v.z * dt, 1000)
                 /\ movement'[e].velocity.x = Quot(v.x * 95, 100)
                 /\ movement'[e].velocity.z = Quot(v.z * 95, 100)
                 /\ (/\ simOp.op = "applyForce" /\ simOp.id = e
                     /\ simOp.arg = [x |-> 200, y |-> 0, z |-> 0]
                     /\ v = [x |-> 200, y |-> 0, z |-> 0])
                       => /\ transform'[e].position.x > p.x
                          /\ movement'[e].velocity.x = 190]_simAll

\* The tick after applyForce(1, {x: 2, y: 0, z: 0}) on the resting entity: it
\* has moved by 2 * 0.2 = 0.4 from where it started and its velocity.x is 1.9.
C19_Witness ==
    /\ simOp.op = "movement.update" /\ simOp.arg = 200
    /\ transform[1].position.x \in {x + 40 : x \in StartXs}
    /\ movement[1].velocity.x = 190 /\ movement[1].velocity.z = 0

\* AISystem.update visits entity e: it holds a Transform, an AI and a Movement.
Thinks(e) == Has(e, "transform") /\ Has(e, "ai") /\ Has(e, "movement")

\* The wander timer of entity e has expired.
Expired(e) == now - ai[e].lastDirectionChange > ai[e].directionChangeInterval

\* The wander target drawn with the given offset from the position of e,
\* clamped to [-25, 25] in x and z.
Bounded(a) == IF a > 2500 THEN 2500 ELSE IF a < -2500 THEN -2500 ELSE a
DrawnTarget(e, offset) ==
    [x |-> Bounded(transform[e].position.x + offset.x),
     y |-> transform[e].position.y,
     z |-> Bounded(transform[e].position.z + offset.z)]

\* C14 as stated: a Wander entity in sub-state Idle whose timer has expired is,
\* after one AI update, in sub-state Moving with a non-null target whose x and
\* z lie in [-25, 25], and its lastDirectionChange is now, whatever is drawn.
C14_WanderStartsMoving ==
    [][\A e \in SimIds :
          (/\ simOp'.op = "ai.update" /\ Thinks(e)
           /\ ai[e].behavior = "wander" /\ ai[e].state = "idle" /\ Expired(e))
          => /\ ai'[e].state = "moving"
             /\ ai'[e].targetPosition # NoPosition
             /\ ai'[e].targetPosition.x \in -2500..2500
             /\ ai'[e].targetPosition.z \in -2500..2500
             /\ ai'[e].lastDirectionChange = now]_simAll

\* C14 amended: a Wander entity in sub-state Idle whose timer has expired
\* draws a target, position + (cos(angle), sin(angle)) * distance clamped to
\* [-25, 25] in x and z. If that target is more than 0.1 away from the entity
\* in the plane, then after the AI update the sub-state is Moving, the target
\* is the drawn one, lastDirectionChange is now and one force towards the
\* target was applied. If the drawn target is within 0.1 (a small distance
\* draw), the same update already counts as the arrival: the sub-state is
\* Idle, the target is null, the interval is re-rolled and lastDirectionChange
\* is now.
C14_WanderStartsUnlessThere ==
    [][\A e \in SimIds :
          (/\ simOp'.op = "ai.update" /\ Thinks(e)
           /\ ai[e].behavior = "wander" /\ ai[e].state = "idle" /\ Expired(e))
          => /\ ai'[e].lastDirectionChange = now
             /\ ai'[e].behavior = "wander"
             /\ IF PlanarDistanceSq(e, DrawnTarget(e, simOp'.arg.offset)) > 10 * 10
                THEN /\ ai'[e].state = "moving"
                     /\ ai'[e].targetPosition = DrawnTarget(e, simOp'.arg.offset)
                     /\ ai'[e].targetPosition.x \in -2500..2500
                     /\ ai'[e].targetPosition.z \in -2500..2500
                     /\ movement'[e].velocity.x = movement[e].velocity.x
                           + TowardsForce(e, DrawnTarget(e, simOp'.arg.offset)).x
                ELSE /\ ai'[e].state = "idle"
                     /\ ai'[e].targetPosition = NoPosition
                     /\ ai'[e].directionChangeInterval = simOp'.arg.interval
                     /\ movement' = movement]_simAll

\* The idle wanderer standing 0.15 inside the bound drew a target beyond the
\* bound: it is Moving towards the clamped target.
C14_Witness ==
    /\ simOp.op = "ai.update"
    /\ simOp.pre[1].behavior = "wander" /\ simOp.pre[1].state = "idle"
    /\ ai[1].state = "moving"
    /\ ai[1].targetPosition # NoPosition
    /\ ai[1].targetPosition.x = 2500
    /\ transform[1].position.x = 2485
    /\ ai[1].lastDirectionChange = now

\* The target a Wander entity in sub-state Moving heads for during an AI
\* update: the one it has, or the one drawn when its timer has expired.
Heading(e, offset) == IF Expired(e) THEN DrawnTarget(e, offset) ELSE ai[e].targetPosition

\* C15: when a Wander entity in sub-state Moving with a target gets true from
\* moveTowards (the target is within 0.1), that same AI update sets the
\* sub-state to Idle, clears the target, sets directionChangeInterval to the
\* value drawn in [1000, 4000) and lastDirectionChange to now, and applies no
\* force; while moveTowards returns false the sub-state stays Moving and, the
\* timer not having expired, the target, the interval and lastDirectionChange
\* are unchanged.
C15_WanderArrival ==
    [][\A e \in SimIds :
          (/\ simOp'.op = "ai.update" /\ Thinks(e)
           /\ ai[e].behavior = "wander" /\ ai[e].state = "moving"
           /\ ai[e].targetPosition # NoPosition)
          => IF PlanarDistanceSq(e, Heading(e, simOp'.arg.offset)) <= 10 * 10
             THEN /\ ai'[e].state = "idle"
                  /\ ai'[e].targetPosition = NoPosition
                  /\ ai'[e].directionChangeInterval = simOp'.arg.interval
                  /\ ai'[e].directionChangeInterval >= 1000
                  /\ ai'[e].directionChangeInterval < 4000
                  /\ ai'[e].lastDirectionChange = now
                  /\ ai'[e].behavior = "wander"
                  /\ movement' = movement
             ELSE /\ ai'[e].state = "moving"
                  /\ ai'[e].targetPosition = Heading(e, simOp'.arg.offset)
                  /\ ai'[e].behavior = "wander"
                  /\ ~Expired(e) => ai'[e] = ai[e]]_simAll

\* The wanderer was Moving with a target, the movement system carried it there,
\* and this AI update found it arrived: Idle, no target, a re-rolled interval.
C15_Witness ==
    /\ simOp.op = "ai.update"
    /\ simOp.pre[1].behavior = "wander" /\ simOp.pre[1].state = "moving"
    /\ simOp.pre[1].targetPosition # NoPosition
    /\ simOp.pre[1].lastDirectionChange = now
    /\ transform[1].position.x \notin StartXs
    /\ simOp.pre[1].targetPosition.x = transform[1].position.x
    /\ ai[1].state = "idle" /\ ai[1].targetPosition = NoPosition
    /\ ai[1].directionChangeInterval = 3999

\* C16: an entity whose AI component has behavior Seek and no target has
\* behavior Wander after the very next AI update, and that update applies no
\* force: the Movement components are as they were.
C16_SeekWithoutTarget ==
    [][\A e \in SimIds :
          (/\ simOp'.op = "ai.update" /\ Thinks(e)
           /\ ai[e].behavior = "seek" /\ ai[e].targetPosition = NoPosition)
          => /\ ai'[e].behavior = "wander"
             /\ movement' = movement
             /\ transform' = transform]_simAll

\* setBehavior made the entity seek without a target while it was moving; the
\* AI update made it a wanderer and left its velocity alone.
C16_Witness ==
    /\ simOp.op = "ai.update"
    /\ simOp.pre[1].behavior = "seek" /\ simOp.pre[1].targetPosition = NoPosition
    /\ simOp.pre[1].state = "idle"
    /\ ai[1].behavior = "wander"
    /\ movement[1].velocity.x # 0

\* C17 as stated: in every state reached through AI updates, setTarget and
\* setBehavior from a new AI component, sub-state Moving implies a target.
C17_MovingHasTarget ==
    \A e \in DOMAIN ai : ai[e].state = "moving" => ai[e].targetPosition # NoPosition

\* The square of the planar distance from entity e to position p.
DistanceSqTo(e, p) ==
    (transform[e].position.x - p.x) * (transform[e].position.x - p.x)
    + (transform[e].position.z - p.z) * (transform[e].position.z - p.z)

\* C18: getEntitiesInRange(position, range) returns, once each, exactly the
\* entities with a Transform whose planar (XZ) distance to position is at most
\* range, one exactly at range included; the result is ordered by
\* non-decreasing distance, and entities at equal distance come in the order
\* in which the query scans them.
C18_InRangeSortedStable ==
    simOp.op = "getEntitiesInRange"
    => LET r == simOp.result
           p == simOp.arg.position
           range == simOp.arg.range
           scan == getEntitiesWithComponents(<<"transform">>)
       IN  /\ {r[i].entityId : i \in 1..Len(r)}
                 = {e \in RangeIds : hasComponent(e, "transform") /\ range >= 0
                                      /\ DistanceSqTo(e, p) <= range * range}
           /\ \A i, j \in 1..Len(r) : i # j => r[i].entityId # r[j].entityId
           /\ \A i \in 1..Len(r) :
                 /\ r[i].position = transform[r[i].entityId].position
                 /\ r[i].distance * r[i].distance <= DistanceSqTo(r[i].entityId, p)
                 /\ (r[i].distance + 1) * (r[i].distance + 1) > DistanceSqTo(r[i].entityId, p)
           /\ \A i, j \in 1..Len(r) :
                 i < j => \/ DistanceSqTo(r[i].entityId, p) < DistanceSqTo(r[j].entityId, p)
                          \/ /\ DistanceSqTo(r[i].entityId, p) = DistanceSqTo(r[j].entityId, p)
                             /\ PositionIn(scan, r[i].entityId) < PositionIn(scan, r[j].entityId)

\* Entities 2 and 1 stand at different places exactly at range from the
\* position asked for and come back in scan order, 2 before 1, behind a nearer
\* entity 3.
C18_Witness ==
    /\ simOp.op = "getEntitiesInRange"
    /\ Len(simOp.result) = 3
    /\ simOp.result[1].entityId = 3
    /\ simOp.result[2].entityId = 2 /\ simOp.result[3].entityId = 1
    /\ transform[1].position # transform[2].position
    /\ DistanceSqTo(1, simOp.arg.position) = simOp.arg.range * simOp.arg.range
    /\ DistanceSqTo(2, simOp.arg.position) = simOp.arg.range * simOp.arg.range
    /\ DistanceSqTo(3, simOp.arg.position) < simOp.arg.range * simOp.arg.range

\* C20 as stated: with the renderer registered before any entity operation,
\* after any sequence of createEntity, addComponent, removeComponent and
\* destroyEntity calls the renderer holds a mesh for entity id e if and only if
\* e is live and has a mesh component.
C20_DrawableIffMesh ==
    \A e \in Ids : MapHas(meshes, e) <=> (Live(e) /\ hasComponent(e, "mesh"))

\* The AI components other than that of entity e are as they were.
OtherAIUnchanged(e) == \A o \in DOMAIN ai : o # e => ai'[o] = ai[o]

\* C22: setTarget(id, pos) on an entity with an AI component sets behavior to
\* Seek, sub-state to Moving and targetPosition to pos whatever they were
\* before, and leaves the timer fields alone; on an entity without an AI
\* component it changes no component.
C22_SetTargetForcesSeek ==
    [][\A e \in SimIds :
          (simOp'.op = "setTarget" /\ simOp'.id = e)
          => /\ DOMAIN ai' = DOMAIN ai
             /\ transform' = transform /\ movement' = movement
             /\ IF Has(e, "ai")
                THEN /\ ai'[e].behavior = "seek"
                     /\ ai'[e].state = "moving"
                     /\ ai'[e].targetPosition = simOp'.arg
                     /\ ai'[e].lastDirectionChange = ai[e].lastDirectionChange
                     /\ ai'[e].directionChangeInterval = ai[e].directionChangeInterval
                     /\ ai'[e].wanderRadius = ai[e].wanderRadius
                     /\ OtherAIUnchanged(e)
                ELSE ai' = ai]_simAll

\* setBehavior had made the entity Idle in sub-state Idle without a target;
\* setTarget then made it seek the given position, Moving.
C22_Witness ==
    /\ simOp.op = "setTarget" /\ simOp.id = 1
    /\ simOp.pre[1].behavior = "idle" /\ simOp.pre[1].state = "idle"
    /\ simOp.pre[1].targetPosition = NoPosition
    /\ simOp.arg # NoPosition
    /\ ai[1].behavior = "seek" /\ ai[1].state = "moving"
    /\ ai[1].targetPosition = simOp.arg

\* C23: setBehavior(id, b) on an entity with an AI component sets behavior to
\* b, sub-state to Idle and lastDirectionChange to now, and leaves
\* targetPosition, directionChangeInterval and wanderRadius as they were; on an
\* entity without an AI component it changes no component.
C23_SetBehaviorResetsTimer ==
    [][\A e \in SimIds :
          (simOp'.op = "setBehavior" /\ simOp'.id = e)
          => /\ DOMAIN ai' = DOMAIN ai
             /\ transform' = transform /\ movement' = movement
             /\ IF Has(e, "ai")
                THEN /\ ai'[e].behavior = simOp'.arg
                     /\ ai'[e].state = "idle"
                     /\ ai'[e].lastDirectionChange = now
                     /\ ai'[e].targetPosition = ai[e].targetPosition
                     /\ ai'[e].directionChangeInterval = ai[e].directionChangeInterval
                     /\ ai'[e].wanderRadius = ai[e].wanderRadius
                     /\ OtherAIUnchanged(e)
                ELSE ai' = ai]_simAll

\* The entity was seeking a target, Moving, with a timer set earlier;
\* setBehavior made it Idle in sub-state Idle with the timer at now and the
\* target still there.
C23_Witness ==
    /\ simOp.op = "setBehavior" /\ simOp.id = 1 /\ simOp.arg = "idle"
    /\ simOp.pre[1].behavior = "seek" /\ simOp.pre[1].state = "moving"
    /\ simOp.pre[1].targetPosition # NoPosition
    /\ simOp.pre[1].lastDirectionChange < now
    /\ ai[1].behavior = "idle" /\ ai[1].state = "idle"
    /\ ai[1].lastDirectionChange = now
    /\ ai[1].targetPosition = simOp.pre[1].targetPosition

\* C26: an AI update of an entity with behavior Seek and a target calls
\* moveTowards with that target: while the target is farther than 0.1 the
\* entity gets the force towards it and keeps behavior Seek and its target; in
\* the update that finds the target within 0.1 no force is applied, behavior
\* becomes Wander and targetPosition is cleared.
C26_SeekArrival ==
    [][\A e \in SimIds :
          (/\ simOp'.op = "ai.update" /\ Thinks(e)
           /\ ai[e].behavior = "seek" /\ ai[e].targetPosition # NoPosition)
          => IF PlanarDistanceSq(e, ai[e].targetPosition) <= 10 * 10
             THEN /\ ai'[e].behavior = "wander"
                  /\ ai'[e].targetPosition = NoPosition
                  /\ movement' = movement
             ELSE /\ ai'[e] = ai[e]
                  /\ movement'[e].velocity.x
                        = movement[e].velocity.x + TowardsForce(e, ai[e].targetPosition).x
                  /\ movement'[e].velocity.z
                        = movement[e].velocity.z + TowardsForce(e, ai[e].targetPosition).z]_simAll

\* The seeker was away from its target, the movement system carried it there,
\* and this AI update found it arrived: a wanderer without a target.
C26_Witness ==
    /\ simOp.op = "ai.update"
    /\ simOp.pre[1].behavior = "seek" /\ simOp.pre[1].targetPosition # NoPosition
    /\ transform[1].position.x \notin StartXs
    /\ ai[1].behavior = "wander" /\ ai[1].targetPosition = NoPosition

\* d is the difference target - current of the call, brought within lo..hi by
\* whole turns, and the call returned current + d * factor.
Interpolated(op, d, lo, hi) ==
    /\ d >= lo /\ d <= hi
    /\ (d - (op.arg.target - op.arg.current)) % (2 * Pi) = 0
    /\ op.result = op.arg.current + Mul(d, op.arg.factor)

\* C28 as stated: lerpAngle(current, target, factor) returns
\* current + d * factor for the d congruent to target - current modulo 2*pi
\* with -pi < d <= pi.
C28_WrappedHalfOpen ==
    simOp.op = "lerpAngle" => \E d \in (-Pi + 1)..Pi : Interpolated(simOp, d, -Pi + 1, Pi)

\* C28: lerpAngle(current, target, factor) returns current + d * factor for a
\* d congruent to target - current modulo 2*pi with -pi <= d <= pi: a raw
\* difference within [-pi, pi] is taken as it is, -pi included; a greater one
\* is brought to (-pi, pi] and a smaller one to [-pi, pi) by whole turns.
C28_WrappedClosed ==
    simOp.op = "lerpAngle" =>
        LET raw == simOp.arg.target - simOp.arg.current
        IN  IF raw > Pi THEN \E d \in -Pi..Pi : Interpolated(simOp, d, -Pi + 1, Pi)
            ELSE IF raw < -Pi THEN \E d \in -Pi..Pi : Interpolated(simOp, d, -Pi, Pi - 1)
            ELSE Interpolated(simOp, raw, -Pi, Pi)

\* lerpAngle was called with a target exactly pi below current and the factor
\* 1: it turned by -pi and returned the target.
C28_Witness ==
    /\ simOp.op = "lerpAngle"
    /\ simOp.arg.target - simOp.arg.current = -Pi
    /\ simOp.arg.factor = 100
    /\ simOp.result = simOp.arg.current - Pi

\* A frame is still to come after the timer of entity e has run out.
RunsOutInTime(e) ==
    \E d \in FrameTimes :
        ai[e].lastDirectionChange + ai[e].directionChangeInterval
            < NowStart + (MaxFrames - 1) * d

\* C27: an AI update of an entity with behavior Idle changes nothing, applies
\* no force and keeps behavior Idle while now - lastDirectionChange <=
\* directionChangeInterval, and the first update with now - lastDirectionChange >
\* directionChangeInterval sets behavior to Wander and nothing else; with the
\* frames continuing and the clock advancing, an Idle entity eventually becomes
\* a wanderer, unless setBehavior is called on it first.
C27_IdleIsATimer ==
    /\ [][\A e \in SimIds :
             (simOp'.op = "ai.update" /\ Thinks(e) /\ ai[e].behavior = "idle")
             => /\ transform' = transform /\ movement' = movement
                /\ IF now - ai[e].lastDirectionChange > ai[e].directionChangeInterval
                   THEN ai'[e] = [ai[e] EXCEPT !.behavior = "wander"]
                   ELSE ai'[e] = ai[e]]_simAll
    /\ (ai[1].behavior = "idle" /\ RunsOutInTime(1))
          ~> (ai[1].behavior = "wander" \/ simOp.op = "setBehavior")

\* setBehavior made the entity Idle; it stayed Idle through the update in which
\* now - lastDirectionChange was exactly directionChangeInterval, and the next
\* update made it a wanderer.
C27_Witness ==
    /\ simOp.op = "ai.update"
    /\ simOp.pre[1].behavior = "idle"
    /\ now - 1000 - simOp.pre[1].lastDirectionChange
          = simOp.pre[1].directionChangeInterval + 1000
    /\ simOp.pre[1].lastDirectionChange >= NowStart
    /\ ai[1].behavior = "wander"

\* The last operation handed a mesh component to the hooks of the systems.
MeshAdded(op) == op.op = "addComponent" /\ ~op.threw /\ op.type = "mesh"

\* C21 as stated: no hook and no update pass of the renderer changes a field of
\* a component held by the store, the mesh component it is handed included.
C21_RendererWritesNoComponent ==
    [][componentMesh' = componentMesh]_allVars

\* C21: the renderer writes one field of the components of the store, the mesh
\* field of the mesh component handed to onComponentAdded, which createMesh sets
\* to the mesh it built; its other hooks and its update pass change no
\* component: update copies the Transform payloads into the meshes and leaves
\* the store as it was.
C21_RendererWritesMeshFieldOnly ==
    [][/\ \A d \in Data :
             componentMesh'[d] # componentMesh[d] => MeshAdded(lastOp') /\ lastOp'.data = d
       /\ MeshAdded(lastOp')
             => /\ MapHas(meshes', lastOp'.id)
                /\ MapGet(meshes', lastOp'.id).of = lastOp'.data
                /\ componentMesh'[lastOp'.data]
                      = [serial |-> MapGet(meshes', lastOp'.id).serial]
       /\ lastOp'.op = "update"
             => /\ entities' = entities
                /\ \A e \in Ids :
                      MapHas(meshes', e) /\ hasComponent(e, "transform") /\ hasComponent(e, "mesh")
                      => MapGet(meshes', e).pose = getComponent(e, "transform")]_allVars

\* A mesh component was added to a live entity: the renderer holds a mesh built
\* from it, and the component's mesh field, null before, refers to that mesh.
C21_Witness ==
    /\ MeshAdded(lastOp)
    /\ MapHas(meshes, lastOp.id)
    /\ componentMesh[lastOp.data] = [serial |-> opCount]
    /\ MapGet(meshes, lastOp.id).serial = opCount
    /\ \E d \in Data : componentMesh[d] = NoMesh

\* The position of the first key of order that is no component type, 0 if all
\* are.
FirstUnknown(order) ==
    IF \E i \in 1..Len(order) : order[i] \notin ComponentTypes
    THEN CHOOSE i \in 1..Len(order) :
             /\ order[i] \notin ComponentTypes
             /\ \A j \in 1..(i - 1) : order[j] \in ComponentTypes
    ELSE 0

\* The keys of order that come before the first unknown one.
BeforeUnknown(order) == SubSeq(order, 1, FirstUnknown(order) - 1)

\* cs is one onComponentAdded invocation per component type of types and per
\* system implementing the hook, component by component.
Announced(cs, e, types) ==
    LET listeners == Implementing("onComponentAdded")
    IN  /\ Len(cs) = Len(types) * Len(listeners)
        /\ \A i \in 1..Len(types), k \in 1..Len(listeners) :
              /\ cs[(i - 1) * Len(listeners) + k].sys = listeners[k]
              /\ cs[(i - 1) * Len(listeners) + k].hook = "onComponentAdded"
              /\ cs[(i - 1) * Len(listeners) + k].args[1] = e
              /\ cs[(i - 1) * Len(listeners) + k].args[2] = types[i]

\* Operation op was createEntityFromDefinition meeting the unknown key that
\* comes first in order: it threw for that key, and in the store ents the new
\* entity is live and holds the components that come before that key in order,
\* each announced in cs, and no other.
LeftPartial(op, ents, cs, order) ==
    /\ op.threw
    /\ op.type = order[FirstUnknown(order)]
    /\ MapHas(ents, op.id)
    /\ MapKeys(MapGet(ents, op.id)) = BeforeUnknown(order)
    /\ Announced(cs, op.id, BeforeUnknown(order))

\* createEntityFromDefinition was called with a definition declaring a key that
\* is no component type.
MetUnknown(op) ==
    op.op = "createEntityFromDefinition" /\ FirstUnknown(op.data) > 0

\* C30 as stated: when a definition declares an unknown component type,
\* createEntityFromDefinition throws for it and leaves the new entity live with
\* exactly the components the document declares before the unknown one, each
\* announced by onComponentAdded, and none declared after it.
C30_PartialInDocumentOrder ==
    [][MetUnknown(lastOp') => LeftPartial(lastOp', entities', calls', lastOp'.data)]_vars

\* C30: when a definition declares an unknown component type,
\* createEntityFromDefinition throws for the first unknown key in the order of
\* Object.entries (integer-like keys first, then the others as declared) and
\* does no cleanup: the new entity is live with exactly the components that
\* come before that key in this order, each announced by onComponentAdded, and
\* none that come after it.
C30_PartialInEntriesOrder ==
    [][MetUnknown(lastOp')
       => LeftPartial(lastOp', entities', calls', ObjectEntries(lastOp'.data))]_vars

\* A definition declared transform, then an unknown type, then mesh: the call
\* threw, and the new entity is live holding the transform only, announced once
\* to the renderer.
C30_Witness ==
    /\ lastOp.op = "createEntityFromDefinition"
    /\ lastOp.data = <<"transform", "bogus", "mesh">>
    /\ lastOp.threw /\ lastOp.type = "bogus"
    /\ MapHas(entities, lastOp.id)
    /\ MapKeys(MapGet(entities, lastOp.id)) = <<"transform">>
    /\ Len(calls) = 1 /\ calls[1].sys = "render" /\ calls[1].args[2] = "transform"

\* C29 as stated: in each tick the movement update and the AI system's calls
\* into the movement system come before the renderer copies the Transforms, so
\* after a tick the pose of every mesh is the Transform of its entity as the
\* tick left it.
C29_DrawnPoseIsCurrent ==
    simOp.op = "tick" =>
        \A e \in DOMAIN transform : MapHas(meshes, e) => MapGet(meshes, e).pose = transform[e]

\* C24 as stated: no EntityManager.update runs while a loadWorld or a
\* spawnEntity call is pending, whatever the interleaving of the handlers.
C24_NoUpdateWhileLoading ==
    engine.updates > 0 =>
        engine.init # "pending" /\ engine.restarts = 0 /\ engine.spawns = 0

\* C24, amended: the initial load settles before anything else happens: the
\* engine runs, has a frame callback pending, listens to the keyboard or has
\* updated the systems only when the loadWorld of Application.init has
\* succeeded; and restartGame leaves the engine stopped and the store empty
\* while its loadWorld is awaited.
C24_NoUpdateBeforeInitialLoad ==
    /\ (engine.isRunning \/ engine.callbacks > 0 \/ engine.listening \/ engine.updates > 0
        \/ engine.restarts > 0 \/ engine.spawns > 0)
           => engine.init = "loaded"
    /\ engine.op = "KeyR" => ~engine.isRunning /\ engine.updates = 0 /\ entities = EmptyMap

\* The initial load has just succeeded: the engine ticked once, with no load
\* pending.
C24_Witness ==
    /\ engine.op = "init" /\ engine.init = "loaded"
    /\ engine.updates = 1 /\ engine.isRunning /\ engine.listening
    /\ engine.restarts = 0 /\ engine.spawns = 0
    /\ entities # EmptyMap

\* C25: once the engine is stopped, no handler updates the systems until one
\* calls start(): a frame that finds the engine stopped runs its callbacks
\* without any update and leaves no callback pending; and a frame that finds
\* the engine running gives every one of its ticks to every registered system,
\* in order, also when stop() is called during the tick.
C25_StopHaltsTicking ==
    [][/\ (~engine.isRunning /\ engine'.updates > 0)
              => engine'.op \in {"init", "restartGame", "KeyP"}
       /\ (~engine.isRunning /\ engine'.op = "frame")
              => /\ engine'.updates = 0 /\ engine'.updated = << >>
                 /\ engine'.callbacks = 0 /\ ~engine'.isRunning
       /\ (engine.isRunning /\ engine'.op = "frame")
              => /\ engine'.updates >= 1
                 /\ Len(engine'.updated) = engine'.updates * Len(systems)
                 /\ \A i \in 1..Len(engine'.updated) :
                        /\ engine'.updated[i].hook = "update"
                        /\ engine'.updated[i].sys = systems[((i - 1) % Len(systems)) + 1]
                 /\ engine'.callbacks = engine'.updates]_<<vars, engine>>

\* A frame callback has fired on a stopped engine: it updated nothing and
\* requested no further frame.
C25_Witness ==
    /\ engine.op = "frame" /\ ~engine.isRunning
    /\ engine.updates = 0 /\ engine.callbacks = 0
    /\ engine.init = "loaded" /\ engine.restarts = 0

\* The number of entities the groups g.. of a world document ask for.
RECURSIVE Wanted(_, _)
Wanted(world, g) == IF g > Len(world) THEN 0 ELSE world[g].count + Wanted(world, g + 1)

\* The definition of the k-th entity (k >= 1) the groups g.. of a world
\* document ask for.
RECURSIVE WantedDefinition(_, _, _)
WantedDefinition(world, g, k) ==
    IF k <= world[g].count THEN world[g].definition
    ELSE WantedDefinition(world, g + 1, k - world[g].count)

\* C31 as stated: a successful loadWorld of a document whose groups all give a
\* count creates exactly the sum of the counts entities, with fresh consecutive
\* ids, each holding the components of its group's definition, and returns
\* their ids in spawn order.
C31_LoadWorldSpawnsCount ==
    (/\ lastOp.op = "loadWorld" /\ ~lastOp.threw
     /\ \A g \in 1..Len(lastOp.data) : lastOp.data[g].hasCount)
        => /\ Len(lastOp.result) = Wanted(lastOp.data, 1)
           /\ \A k \in 1..Len(lastOp.result) :
                  /\ lastOp.result[k] = lastOp.id + k - 1
                  /\ k <= Wanted(lastOp.data, 1)
                        => /\ MapHas(entities, lastOp.result[k])
                           /\ MapKeys(MapGet(entities, lastOp.result[k]))
                                  = ObjectEntries(WantedDefinition(lastOp.data, 1, k))

\* C32 as stated: whatever the interleaving of start(), stop() and the
\* animation frames, at most one frame callback is pending, and an animation
\* frame makes at most one EntityManager.update.
C32_OneLoopChain ==
    /\ engine.callbacks <= 1
    /\ engine.op = "frame" => engine.updates <= 1

====
